---- MODULE Spec2Model ----
(***************************************************************************)
(* Model of the image converter's Object Store (src/utils/indexeddb.ts)    *)
(* and Access Gateway (public/sw.js).                                      *)
(*                                                                         *)
(* A file name is a record [body, pad]: the string is the characters of    *)
(* body followed by pad copies of the harmless letter "A".  The tail lets  *)
(* the model hold names around the real limit of 255 characters while      *)
(* the interesting characters stay in a short body.  "A" is never a body   *)
(* character, so a string has exactly one representation.                  *)
(*                                                                         *)
(* A blob is [size, fill, type]: size bytes of content, fill telling two   *)
(* contents of one size apart, and the declared media type.                *)
(***************************************************************************)
EXTENDS Integers, Sequences, FiniteSets, TLC

\* ------------------------------------------------------------------ bounds

\* Longest body of a name the environment supplies.
MaxBody == 2
\* The longest head of a name given to the name functions.
MaxNameBody == 3

\* ------------------------------------------------------- program constants

MAX_STORED_IMAGES == 100
MAX_BLOB_SIZE == 50 * 1024 * 1024
ALLOWED_BLOB_TYPES == {"image/webp", "image/jpeg", "image/png", "image/gif"}
MAX_FILENAME_LENGTH == 255
DAY_MS == 24 * 60 * 60 * 1000

\* ------------------------------------------------------------------ strings

Min(a, b) == IF a < b THEN a ELSE b

Name(body) == [body |-> body, pad |-> 0]
Padded(body, n) == [body |-> body, pad |-> n]
EmptyName == Name(<< >>)
\* `undefined`: the optional filename argument left out.
NoName == [undefined |-> TRUE]

NameLen(n) == Len(n.body) + n.pad

\* The class [<>:"/\\|?*\x00-\x1f] of the three regular expressions.
\* "^A" stands for a control byte (0x01).
DangerousChars == {"<", ">", ":", "\"", "/", "\\", "|", "?", "*", "^A"}

\* s.replace(/[<>:"/\\|?*\x00-\x1f]/g, '')
StripDangerous(n) ==
  [body |-> SelectSeq(n.body, LAMBDA c : c \notin DangerousChars), pad |-> n.pad]

HasDangerous(n) == \E i \in 1..Len(n.body) : n.body[i] \in DangerousChars

\* s.slice(0, k)
Slice(n, k) ==
  IF Len(n.body) >= k
  THEN [body |-> SubSeq(n.body, 1, k), pad |-> 0]
  ELSE [body |-> n.body, pad |-> Min(n.pad, k - Len(n.body))]

\* s.includes(c) for a body character c
Includes(n, c) == \E i \in 1..Len(n.body) : n.body[i] = c

\* s.includes('..')
IncludesDotDot(n) ==
  \E i \in 1..(Len(n.body) - 1) : n.body[i] = "." /\ n.body[i + 1] = "."

\* s.startsWith('.')
StartsWithDot(n) == Len(n.body) > 0 /\ n.body[1] = "."

\* ------------------------------------------------------------------- blobs

Blob(size, fill, type) == [size |-> size, fill |-> fill, type |-> type]
\* `null`, the store functions' not-found result.
Null == [null |-> TRUE]

\* SHA-256 over the content, as the hex string generateChecksum returns: one
\* digest per content, whatever the declared type.
Digest(blob) == <<"sha256", blob.size, blob.fill>>
\* The checksum of a record written without one (`undefined`, or the empty
\* string: both are falsy).
NoChecksum == << >>

\* indexeddb.ts validateBlob
validateBlob(blob) ==
  /\ blob # Null
  /\ blob.size # 0
  /\ ~(blob.size > MAX_BLOB_SIZE)
  /\ blob.type \in ALLOWED_BLOB_TYPES

\* indexeddb.ts sanitizeFilename
sanitizeFilenameUncut(n) == StripDangerous(n)
sanitizeFilename(n) == Slice(StripDangerous(n), 255)

\* fileValidation.ts validateFileName: whether the result is valid.
validateFileName(fileName) ==
  IF NameLen(fileName) > MAX_FILENAME_LENGTH THEN FALSE
  ELSE IF HasDangerous(fileName) THEN FALSE
  ELSE IF IncludesDotDot(fileName) \/ StartsWithDot(fileName) THEN FALSE
  ELSE TRUE

\* Number.prototype.toString(36), as a sequence of digit characters.
Base36Digits ==
  << "0", "1", "2", "3", "4", "5", "6", "7", "8", "9", "a", "b", "c", "d", "e",
     "f", "g", "h", "i", "j", "k", "l", "m", "n", "o", "p", "q", "r", "s", "t",
     "u", "v", "w", "x", "y", "z" >>

RECURSIVE Base36(_)
Base36(t) ==
  IF t < 36 THEN << Base36Digits[t + 1] >>
  ELSE Base36(t \div 36) \o << Base36Digits[(t % 36) + 1] >>

\* Math.random().toString(36).substring(2, 7): at most five base-36 digits,
\* fewer when the expansion is short.
RandomSuffixes == { << >>, << "k", "q", "7", "z", "0" >> }

\* indexeddb.ts generateUniqueFilename, prefix 'img'
generateUniqueFilename(t, random) ==
  Name(<< "i", "m", "g", "-" >> \o Base36(t) \o << "-" >> \o random
       \o << ".", "w", "e", "b", "p" >>)

\* --------------------------------------------------------------- environment

\* The instants the clock of the model passes through (Date.now(), in ms).
Times == << 0, 1, DAY_MS, DAY_MS + 1 >>

\* Characters of the names callers and requesters supply.
NameChars == {"a", ".", "<", ":", "/"}

RECURSIVE SeqsUpTo(_, _)
SeqsUpTo(S, n) ==
  IF n = 0 THEN { << >> }
  ELSE LET shorter == SeqsUpTo(S, n - 1)
       IN  shorter \cup { Append(s, c) : s \in shorter, c \in S }

\* Tail lengths around the 255-character limit.
Pads == {0, MAX_FILENAME_LENGTH - 1, MAX_FILENAME_LENGTH, MAX_FILENAME_LENGTH + 1}

Bodies == SeqsUpTo(NameChars, MaxBody)

\* ------------------------------------------------------------------- state

VARIABLES
  store,      \* the object store 'generatedImages': key -> record
  bulk,       \* further records of the store that the model does not tell apart
  hasIndex,   \* whether the store has the 'timestamp' index
  clock,      \* position of the clock in Times
  put,        \* a call of saveImageToDB
  get,        \* a call of indexeddb.ts getImageFromDB
  sweep,      \* the last call of cleanupOldImages
  blobCache,  \* sw.js blobCache: filename -> blob
  gw,         \* a fetch event in the service worker
  put2,       \* a second call of saveImageToDB, beside put
  get2,       \* a second call of indexeddb.ts getImageFromDB, beside get
  validation, \* a call of fileValidation.ts validateFile
  naming,     \* a call of sanitizeFileName or validateFileName
  worker,     \* the image worker and the request it is serving
  pool,       \* the page's worker instances, workerRef and replacement timers
  page,       \* the page in the mode 'individual': step and the upload in hand
  batch       \* BatchMode: images, the run of processImages, the editor

vars ==
  << store, bulk, hasIndex, clock, put, get, sweep, blobCache, gw,
     put2, get2, validation, naming, worker, pool, page, batch >>

\* The page and its batch component.
ui == << pool, page, batch >>

\* The calls beside the first caller's and the gateway's.
others == << put2, get2, validation, naming, worker, ui >>

\* The calls of the name functions and the image worker.
tools == << naming, worker, ui >>

now == Times[clock]

\* The records the untold part of the store holds were all written at the
\* first instant.
BulkTimestamp == Times[1]

\* StoredImage
Record(blob, timestamp, checksum) ==
  [blob |-> blob, timestamp |-> timestamp, checksum |-> checksum]

\* store.count()
Count == Cardinality(DOMAIN store) + bulk

\* store.put(imageData): the record replaces the one under its key.
StorePut(st, key, rec) ==
  [k \in DOMAIN st \cup {key} |-> IF k = key THEN rec ELSE st[k]]

\* store.get(key): the record, or undefined.
StoreGetTorn(st, key) ==
  IF key \in DOMAIN st
  THEN [st[key] EXCEPT !.blob = Blob(@.size, 1 - @.fill, @.type)]
  ELSE Null
StoreGet(st, key) == IF key \in DOMAIN st THEN st[key] ELSE Null

\* A transaction stays alive across a task only while one of its requests is
\* pending: with none, it commits when control returns to the event loop, and
\* a request placed on it afterwards throws TransactionInactiveError.
TxAfterTaskKept(tx, requestPending) == tx
TxAfterTask(tx, requestPending) == IF requestPending THEN tx ELSE "finished"

\* store.put(imageData) called on a transaction that has finished: the call
\* throws TransactionInactiveError and the store stays as it is.
PutOnFinishedWrites(st, key, rec) == StorePut(st, key, rec)
PutOnFinished(st, key, rec) == st

\* The rejection of saveImageToDB's catch block.
SaveError(msg) ==
  [status |-> "error", message |-> << "Failed to save image: ", msg >>]
SaveOk(key) == [status |-> "ok", key |-> key]

IdlePut ==
  [pc |-> "idle", blob |-> Null, name |-> EmptyName, tx |-> "none",
   seen |-> 0, result |-> Null, fault |-> FALSE]
\* expect is a history field: the payload that the put completed before this
\* call was given for this call's key (Null when there is none, or once
\* another put has been called since).
IdleGet ==
  [pc |-> "idle", name |-> EmptyName, rec |-> Null, result |-> Null,
   fault |-> FALSE, expect |-> Null]

\* The payload a completed put was asked to store under key: the put passed
\* the blob and filename checks, met a store below its limit and no fault
\* of the platform.
PutObligation(key) ==
  IF /\ put.pc = "done"
     /\ put.blob # Null
     /\ put.name = key
     /\ put.seen < MAX_STORED_IMAGES
     /\ ~put.fault
  THEN put.blob
  ELSE Null

\* ------------------------------------------- indexeddb.ts: saveImageToDB

\* count >= MAX_STORED_IMAGES
AtCapacityOffByOne(count) == count > MAX_STORED_IMAGES
AtCapacity(count) == count >= MAX_STORED_IMAGES

\* The call, up to `await openDB()`.
saveImageToDBCalled(blob, filename, random) ==
  LET finalFilename ==
        IF filename = NoName \/ filename = EmptyName
        THEN generateUniqueFilename(now, random)
        ELSE sanitizeFilename(filename)
  IN  IF ~validateBlob(blob)
      THEN [IdlePut EXCEPT !.pc = "done",
              !.result = SaveError("Invalid blob: security validation failed")]
      ELSE IF finalFilename = EmptyName
      THEN [IdlePut EXCEPT !.pc = "done",
              !.result = SaveError("Invalid filename after sanitization")]
      ELSE [IdlePut EXCEPT !.pc = "open", !.blob = blob, !.name = finalFilename]

PutCall(blob, filename, random) ==
  /\ put.pc = "idle"
  /\ put' = saveImageToDBCalled(blob, filename, random)
  /\ get' = [get EXCEPT !.expect = Null]
  /\ UNCHANGED << store, bulk, hasIndex, clock, sweep, blobCache, gw, others >>

\* openDB settles; on success the readwrite transaction is opened and
\* store.count() requested.
PutOpened ==
  /\ put.pc = "open"
  /\ \/ put' = [put EXCEPT !.pc = "count", !.tx = "active"]
     \/ put' = [put EXCEPT !.pc = "done", !.fault = TRUE,
                           !.result = SaveError("open failed")]
  /\ UNCHANGED << store, bulk, hasIndex, clock, get, sweep, blobCache, gw, others >>

\* The count request settles; below the limit the function goes on to
\* `await generateChecksum(blob)` with no request pending.
PutCounted ==
  /\ put.pc = "count"
  /\ \/ put' =
          IF AtCapacity(Count)
          THEN [put EXCEPT !.pc = "done", !.seen = Count,
                  !.tx = TxAfterTask(put.tx, FALSE),
                  !.result = SaveError("Storage limit reached")]
          ELSE [put EXCEPT !.pc = "hash", !.seen = Count,
                  !.tx = TxAfterTask(put.tx, FALSE)]
     \/ put' = [put EXCEPT !.pc = "done", !.fault = TRUE, !.tx = "finished",
                           !.result = SaveError("Failed to count images")]
  /\ UNCHANGED << store, bulk, hasIndex, clock, get, sweep, blobCache, gw, others >>

\* The digest settles; store.put(imageData) is called on the transaction of
\* the count and, when that is still active, writes the record.
PutHashed ==
  /\ put.pc = "hash"
  /\ \/ IF put.tx = "active"
        THEN /\ store' = StorePut(store, put.name,
                                  Record(put.blob, now, Digest(put.blob)))
             /\ put' = [put EXCEPT !.pc = "done", !.tx = "finished",
                                   !.result = SaveOk(put.name)]
        ELSE /\ store' = PutOnFinished(store, put.name,
                                       Record(put.blob, now, Digest(put.blob)))
             /\ put' = [put EXCEPT !.pc = "done",
                          !.result = [status |-> "error",
                                      message |-> << "TransactionInactiveError" >>]]
     \/ /\ store' = store
        /\ put' = [put EXCEPT !.pc = "done", !.fault = TRUE,
                              !.result = SaveError("digest failed")]
  /\ UNCHANGED << bulk, hasIndex, clock, get, sweep, blobCache, gw, others >>

\* The caller has the outcome of the call.
PutReturn ==
  /\ put.pc = "done"
  /\ put' = IdlePut
  /\ UNCHANGED << store, bulk, hasIndex, clock, get, sweep, blobCache, gw, others >>

\* ------------------------------------------- indexeddb.ts: getImageFromDB

\* currentChecksum === result.checksum
ChecksumMatchesAny(rec) == TRUE
ChecksumMatches(rec) == Digest(rec.blob) = rec.checksum

\* The call, up to `await openDB()`.
GetCall(filename) ==
  /\ get.pc = "idle"
  /\ LET sanitizedFilename == sanitizeFilename(filename)
     IN  get' =
           IF sanitizedFilename = EmptyName \/ sanitizedFilename # filename
           THEN [IdleGet EXCEPT !.pc = "done", !.name = filename]
           ELSE [IdleGet EXCEPT !.pc = "open", !.name = sanitizedFilename,
                                !.expect = PutObligation(sanitizedFilename)]
  /\ UNCHANGED << store, bulk, hasIndex, clock, put, sweep, blobCache, gw, others >>

\* openDB settles; on success store.get(sanitizedFilename) is requested.
GetOpened ==
  /\ get.pc = "open"
  /\ \/ get' = [get EXCEPT !.pc = "read"]
     \/ get' = [get EXCEPT !.pc = "done", !.fault = TRUE, !.result = Null]
  /\ UNCHANGED << store, bulk, hasIndex, clock, put, sweep, blobCache, gw, others >>

\* The get request settles.
GetRead ==
  /\ get.pc = "read"
  /\ \/ LET result == StoreGet(store, get.name)
        IN  get' =
              IF result = Null
              THEN [get EXCEPT !.pc = "done", !.result = Null]
              ELSE IF result.checksum # NoChecksum
              THEN [get EXCEPT !.pc = "verify", !.rec = result]
              ELSE [get EXCEPT !.pc = "done", !.rec = result,
                      !.result = IF validateBlob(result.blob)
                                 THEN result.blob ELSE Null]
     \/ get' = [get EXCEPT !.pc = "done", !.fault = TRUE, !.result = Null]
  /\ UNCHANGED << store, bulk, hasIndex, clock, put, sweep, blobCache, gw, others >>

\* generateChecksum(result.blob) settles.
GetVerified ==
  /\ get.pc = "verify"
  /\ \/ get' =
          IF ~ChecksumMatches(get.rec)
          THEN [get EXCEPT !.pc = "done", !.result = Null]
          ELSE [get EXCEPT !.pc = "done",
                  !.result = IF validateBlob(get.rec.blob)
                             THEN get.rec.blob ELSE Null]
     \/ get' = [get EXCEPT !.pc = "done", !.fault = TRUE, !.result = Null]
  /\ UNCHANGED << store, bulk, hasIndex, clock, put, sweep, blobCache, gw, others >>

\* The caller has the outcome of the call.
GetReturn ==
  /\ get.pc = "done"
  /\ get' = IdleGet
  /\ UNCHANGED << store, bulk, hasIndex, clock, put, sweep, blobCache, gw, others >>

\* --------------------------------- indexeddb.ts: calls made concurrently

\* A second caller of saveImageToDB: the steps of PutCall, PutOpened,
\* PutCounted, PutHashed and PutReturn, on its own call.
Put2Call(blob, filename, random) ==
  /\ put2.pc = "idle"
  /\ LET finalFilename ==
           IF filename = NoName \/ filename = EmptyName
           THEN generateUniqueFilename(now, random)
           ELSE sanitizeFilename(filename)
     IN  put2' =
           IF ~validateBlob(blob)
           THEN [IdlePut EXCEPT !.pc = "done",
                   !.result = SaveError("Invalid blob: security validation failed")]
           ELSE IF finalFilename = EmptyName
           THEN [IdlePut EXCEPT !.pc = "done",
                   !.result = SaveError("Invalid filename after sanitization")]
           ELSE [IdlePut EXCEPT !.pc = "open", !.blob = blob, !.name = finalFilename]
  /\ get' = [get EXCEPT !.expect = Null]
  /\ UNCHANGED << store, bulk, hasIndex, clock, sweep, blobCache, gw, put, get2, validation, tools >>

Put2Opened ==
  /\ put2.pc = "open"
  /\ \/ put2' = [put2 EXCEPT !.pc = "count", !.tx = "active"]
     \/ put2' = [put2 EXCEPT !.pc = "done", !.fault = TRUE,
                           !.result = SaveError("open failed")]
  /\ UNCHANGED << store, bulk, hasIndex, clock, get, sweep, blobCache, gw, put, get2, validation, tools >>

Put2Counted ==
  /\ put2.pc = "count"
  /\ \/ put2' =
          IF AtCapacity(Count)
          THEN [put2 EXCEPT !.pc = "done", !.seen = Count,
                  !.tx = TxAfterTask(put2.tx, FALSE),
                  !.result = SaveError("Storage limit reached")]
          ELSE [put2 EXCEPT !.pc = "hash", !.seen = Count,
                  !.tx = TxAfterTask(put2.tx, FALSE)]
     \/ put2' = [put2 EXCEPT !.pc = "done", !.fault = TRUE, !.tx = "finished",
                           !.result = SaveError("Failed to count images")]
  /\ UNCHANGED << store, bulk, hasIndex, clock, get, sweep, blobCache, gw, put, get2, validation, tools >>

Put2Hashed ==
  /\ put2.pc = "hash"
  /\ \/ IF put2.tx = "active"
        THEN /\ store' = StorePut(store, put2.name,
                                  Record(put2.blob, now, Digest(put2.blob)))
             /\ put2' = [put2 EXCEPT !.pc = "done", !.tx = "finished",
                                   !.result = SaveOk(put2.name)]
        ELSE /\ store' = store
             /\ put2' = [put2 EXCEPT !.pc = "done",
                          !.result = [status |-> "error",
                                      message |-> << "TransactionInactiveError" >>]]
     \/ /\ store' = store
        /\ put2' = [put2 EXCEPT !.pc = "done", !.fault = TRUE,
                              !.result = SaveError("digest failed")]
  /\ UNCHANGED << bulk, hasIndex, clock, get, sweep, blobCache, gw, put, get2, validation, tools >>

Put2Return ==
  /\ put2.pc = "done"
  /\ put2' = IdlePut
  /\ UNCHANGED << store, bulk, hasIndex, clock, get, sweep, blobCache, gw, put, get2, validation, tools >>

\* A second caller of getImageFromDB: the steps of GetCall, GetOpened,
\* GetRead, GetVerified and GetReturn, on its own call (its expect field is
\* not kept).
Get2Call(filename) ==
  /\ get2.pc = "idle"
  /\ LET sanitizedFilename == sanitizeFilename(filename)
     IN  get2' =
           IF sanitizedFilename = EmptyName \/ sanitizedFilename # filename
           THEN [IdleGet EXCEPT !.pc = "done", !.name = filename]
           ELSE [IdleGet EXCEPT !.pc = "open", !.name = sanitizedFilename,
                                !.expect = Null]
  /\ UNCHANGED << store, bulk, hasIndex, clock, put, sweep, blobCache, gw, get, put2, validation, tools >>

Get2Opened ==
  /\ get2.pc = "open"
  /\ \/ get2' = [get2 EXCEPT !.pc = "read"]
     \/ get2' = [get2 EXCEPT !.pc = "done", !.fault = TRUE, !.result = Null]
  /\ UNCHANGED << store, bulk, hasIndex, clock, put, sweep, blobCache, gw, get, put2, validation, tools >>

Get2Read ==
  /\ get2.pc = "read"
  /\ \/ LET result == StoreGet(store, get2.name)
        IN  get2' =
              IF result = Null
              THEN [get2 EXCEPT !.pc = "done", !.result = Null]
              ELSE IF result.checksum # NoChecksum
              THEN [get2 EXCEPT !.pc = "verify", !.rec = result]
              ELSE [get2 EXCEPT !.pc = "done", !.rec = result,
                      !.result = IF validateBlob(result.blob)
                                 THEN result.blob ELSE Null]
     \/ get2' = [get2 EXCEPT !.pc = "done", !.fault = TRUE, !.result = Null]
  /\ UNCHANGED << store, bulk, hasIndex, clock, put, sweep, blobCache, gw, get, put2, validation, tools >>

Get2Verified ==
  /\ get2.pc = "verify"
  /\ \/ get2' =
          IF ~ChecksumMatches(get2.rec)
          THEN [get2 EXCEPT !.pc = "done", !.result = Null]
          ELSE [get2 EXCEPT !.pc = "done",
                  !.result = IF validateBlob(get2.rec.blob)
                             THEN get2.rec.blob ELSE Null]
     \/ get2' = [get2 EXCEPT !.pc = "done", !.fault = TRUE, !.result = Null]
  /\ UNCHANGED << store, bulk, hasIndex, clock, put, sweep, blobCache, gw, get, put2, validation, tools >>

Get2Return ==
  /\ get2.pc = "done"
  /\ get2' = IdleGet
  /\ UNCHANGED << store, bulk, hasIndex, clock, put, sweep, blobCache, gw, get, put2, validation, tools >>

\* ------------------------------------------ indexeddb.ts: cleanupOldImages

\* IDBKeyRange.upperBound(bound): the keys up to the bound, the bound included.
InUpperBound(timestamp, bound) == timestamp <= bound

\* cursor.delete() on every record the cursor visits.
CursorDeleteNothing(st, old) == st
CursorDelete(st, old) == [k \in DOMAIN st \ old |-> st[k]]

\* ran, fault, at, before, bulkBefore, after, bulkAfter and prev are history
\* fields: whether the function was called, whether the platform failed,
\* the instant of the call, the store as the call found and left it, and
\* the same facts of the call before it.
IdleSweep ==
  [ran |-> FALSE, fault |-> FALSE, result |-> 0, at |-> 0,
   before |-> << >>, bulkBefore |-> 0, after |-> << >>, bulkAfter |-> 0,
   prev |-> Null]

SweepDone(result, fault, after, bulkAfter) ==
  [ran |-> TRUE, fault |-> fault, result |-> result, at |-> now,
   before |-> store, bulkBefore |-> bulk, after |-> after, bulkAfter |-> bulkAfter,
   prev |-> IF sweep.ran
            THEN [fault |-> sweep.fault, at |-> sweep.at, after |-> sweep.after,
                  bulkAfter |-> sweep.bulkAfter]
            ELSE Null]

\* One readwrite transaction: the cursor over the 'timestamp' index, bounded
\* above by now - 24 h, deletes every record it visits.  A store without the
\* index makes store.index throw, and a failure to open the database
\* rejects: the catch block returns 0 for both.
CleanupOldImages ==
  /\ \/ LET oneDayAgo == now - DAY_MS
            old == { k \in DOMAIN store :
                       InUpperBound(store[k].timestamp, oneDayAgo) }
            oldBulk == IF InUpperBound(BulkTimestamp, oneDayAgo) THEN bulk ELSE 0
        IN  IF hasIndex
            THEN /\ store' = CursorDelete(store, old)
                 /\ bulk' = bulk - oldBulk
                 /\ sweep' = SweepDone(Cardinality(old) + oldBulk, FALSE,
                                       store', bulk')
            ELSE /\ UNCHANGED << store, bulk >>
                 /\ sweep' = SweepDone(0, FALSE, store, bulk)
     \/ /\ UNCHANGED << store, bulk >>
        /\ sweep' = SweepDone(0, TRUE, store, bulk)
  /\ UNCHANGED << hasIndex, clock, put, get, blobCache, gw, others >>

\* Time passes.
Tick ==
  /\ clock < Len(Times)
  /\ clock' = clock + 1
  /\ UNCHANGED << store, bulk, hasIndex, put, get, sweep, blobCache, gw, others >>

\* ------------------------------------------------------- sw.js: the gateway

IMAGE_PATH_PREFIX == << "imagens-geradas" >>
SelfOrigin == "https://app.example"
OtherOrigin == "https://other.example"

\* The URL parser's percent-encoding of one character of a path: the
\* characters of the path percent-encode set are written %XX, the others
\* stay.
PathEncode(c) ==
  CASE c = "<"  -> << "%", "3", "C" >>
    [] c = ">"  -> << "%", "3", "E" >>
    [] c = "\"" -> << "%", "2", "2" >>
    [] c = "^A" -> << "%", "0", "1" >>
    [] OTHER    -> << c >>

\* The segments of a path: the character sequences between its slashes, the
\* backslash counting as a slash in an http(s) URL.
RECURSIVE PathSegments(_)
PathSegments(chars) ==
  IF chars = << >> THEN << << >> >>
  ELSE LET rest == PathSegments(Tail(chars))
           c == Head(chars)
       IN  IF c = "/" \/ c = "\\"
           THEN << << >> >> \o rest
           ELSE << PathEncode(c) \o Head(rest) >> \o Tail(rest)

\* The URL parser's path state over the segments from position i on: a ".."
\* segment removes the segment before it, a "." segment is dropped, and
\* either of them at the end leaves an empty last segment.  tailed says that
\* letters follow the last segment, which is then no dot segment.
RECURSIVE ResolveDots(_, _, _, _)
ResolveDots(segs, i, acc, tailed) ==
  IF i > Len(segs) THEN acc
  ELSE LET seg == segs[i]
           last == i = Len(segs)
           plain == last /\ tailed
           next ==
             IF seg = << ".", "." >> /\ ~plain
             THEN (IF acc = << >> THEN acc ELSE SubSeq(acc, 1, Len(acc) - 1))
                    \o (IF last THEN << << >> >> ELSE << >>)
             ELSE IF seg = << "." >> /\ ~plain
             THEN acc \o (IF last THEN << << >> >> ELSE << >>)
             ELSE Append(acc, seg)
       IN  ResolveDots(segs, i + 1, next, tailed)

RECURSIVE JoinSlash(_)
JoinSlash(segs) ==
  IF segs = << >> THEN << >>
  ELSE IF Len(segs) = 1 THEN segs[1]
  ELSE segs[1] \o << "/" >> \o JoinSlash(Tail(segs))

\* new URL(request.url).pathname for the URL origin + '/imagens-geradas/' +
\* tail, as [underPrefix, rest]: whether the pathname starts with
\* IMAGE_PATH_PREFIX, and what follows the prefix.
UrlPathname(tail) ==
  LET segs == ResolveDots(PathSegments(tail.body), 1,
                          << IMAGE_PATH_PREFIX >>, tail.pad > 0)
  IN  IF Len(segs) >= 2 /\ segs[1] = IMAGE_PATH_PREFIX
      THEN [underPrefix |-> TRUE,
            rest |-> Padded(JoinSlash(Tail(segs)), tail.pad)]
      ELSE [underPrefix |-> FALSE, rest |-> EmptyName]

\* sw.js validateBlob
swValidateBlobAnyType(blob) ==
  /\ blob # Null
  /\ blob.size # 0
  /\ ~(blob.size > 50 * 1024 * 1024)
swValidateBlob(blob) ==
  /\ blob # Null
  /\ blob.size # 0
  /\ ~(blob.size > 50 * 1024 * 1024)
  /\ blob.type \in ALLOWED_BLOB_TYPES

\* sw.js validateRequest; filename is pathname.replace(IMAGE_PATH_PREFIX, '')
validateRequest(origin, filename) ==
  IF origin # SelfOrigin THEN FALSE
  ELSE IF \/ filename = EmptyName
          \/ IncludesDotDot(filename)
          \/ Includes(filename, "/")
          \/ NameLen(filename) > 255
  THEN FALSE
  ELSE IF HasDangerous(filename) THEN FALSE
  ELSE TRUE

\* String(n), the decimal digits of a header value.
RECURSIVE Decimal(_)
Decimal(n) ==
  IF n < 10 THEN << Base36Digits[n + 1] >>
  ELSE Decimal(n \div 10) \o << Base36Digits[(n % 10) + 1] >>

TextPlain == "text/plain;charset=UTF-8"

BadRequestResponse ==
  [status |-> 400, body |-> "Bad Request", headers |-> [ContentType |-> TextPlain]]
NotFoundResponse ==
  [status |-> 404, body |-> "Imagem nao encontrada",
   headers |-> [ContentType |-> TextPlain]]
InternalErrorResponse ==
  [status |-> 500, body |-> "Erro interno", headers |-> [ContentType |-> TextPlain]]
OkResponse(blob) ==
  [status |-> 200, body |-> blob,
   headers |-> [ContentType |-> IF blob.type # "" THEN blob.type ELSE "image/webp",
                ContentLength |-> Decimal(blob.size),
                CacheControl |-> "public, max-age=31536000",
                XContentTypeOptions |-> "nosniff",
                XFrameOptions |-> "DENY"]]

\* The response the fetch listener's then-callback makes of what
\* getImageFromDB resolved with.
ResponseFor(blob) == IF blob # Null THEN OkResponse(blob) ELSE NotFoundResponse

\* req, cacheRead, storeRead, rec, hadRecord and fault are history fields:
\* the request, whether the cache and the store were read for it, the record
\* the store returned, whether a record was live under the filename when
\* the request came, and whether the platform failed.
IdleGw ==
  [pc |-> "idle", req |-> [origin |-> SelfOrigin, tail |-> EmptyName],
   filename |-> EmptyName, responded |-> 0, response |-> Null,
   cacheRead |-> FALSE, storeRead |-> FALSE, rec |-> Null,
   hadRecord |-> FALSE, fault |-> FALSE]

\* sw.js getImageFromDB up to `await openDB()`: the filename check and the
\* cache lookup.  pc says whether the function has returned ("done") or
\* waits for the database ("open").
swGetImageFromDB(filename) ==
  LET sanitizedFilename == Slice(StripDangerous(filename), 255)
  IN  IF sanitizedFilename = EmptyName \/ sanitizedFilename # filename
      THEN [pc |-> "done", cacheRead |-> FALSE, result |-> Null]
      ELSE IF sanitizedFilename \in DOMAIN blobCache
      THEN LET blob == blobCache[sanitizedFilename]
           IN  [pc |-> "done", cacheRead |-> TRUE,
                result |-> IF swValidateBlob(blob) THEN blob ELSE Null]
      ELSE [pc |-> "open", cacheRead |-> TRUE, result |-> Null]

\* The fetch listener for a request to origin + '/imagens-geradas/' + tail,
\* with the part of getImageFromDB that runs before `await openDB()`.
Fetch(origin, tail) ==
  /\ gw.pc = "idle"
  /\ LET pathname == UrlPathname(tail)
         filename == pathname.rest
         g == [IdleGw EXCEPT !.req = [origin |-> origin, tail |-> tail],
                             !.filename = filename,
                             !.hadRecord = filename \in DOMAIN store]
     IN  gw' =
           IF ~pathname.underPrefix
           THEN [g EXCEPT !.pc = "done"]
           ELSE IF ~validateRequest(origin, filename)
           THEN [g EXCEPT !.pc = "done", !.responded = 1,
                          !.response = BadRequestResponse]
           ELSE LET entry == swGetImageFromDB(filename)
                IN  [g EXCEPT !.pc = entry.pc, !.responded = 1,
                       !.cacheRead = entry.cacheRead,
                       !.response = IF entry.pc = "done"
                                    THEN ResponseFor(entry.result) ELSE Null]
  /\ UNCHANGED << store, bulk, hasIndex, clock, put, get, sweep, blobCache, others >>

\* openDB settles; on success store.get(sanitizedFilename) is requested, a
\* failure is caught and getImageFromDB resolves with null.
GwOpenedUnsettled ==
  /\ gw.pc = "open"
  /\ \/ gw' = [gw EXCEPT !.pc = "read"]
     \/ gw' = [gw EXCEPT !.pc = "unsettled", !.fault = TRUE]
  /\ UNCHANGED << store, bulk, hasIndex, clock, put, get, sweep, blobCache, others >>
GwOpened ==
  /\ gw.pc = "open"
  /\ \/ gw' = [gw EXCEPT !.pc = "read"]
     \/ gw' = [gw EXCEPT !.pc = "done", !.fault = TRUE,
                         !.response = ResponseFor(Null)]
  /\ UNCHANGED << store, bulk, hasIndex, clock, put, get, sweep, blobCache, others >>

\* The get request settles: onsuccess caches and resolves with a valid blob,
\* and resolves with null otherwise; onerror rejects, which the listener's
\* catch turns into the 500 response.
GwRead ==
  /\ gw.pc = "read"
  /\ \/ LET result == StoreGet(store, gw.filename)
        IN  IF result # Null /\ result.blob # Null /\ swValidateBlob(result.blob)
            THEN /\ blobCache' = StorePut(blobCache, gw.filename, result.blob)
                 /\ gw' = [gw EXCEPT !.pc = "done", !.storeRead = TRUE,
                             !.rec = result,
                             !.response = ResponseFor(result.blob)]
            ELSE /\ blobCache' = blobCache
                 /\ gw' = [gw EXCEPT !.pc = "done", !.storeRead = TRUE,
                             !.rec = result,
                             !.response = ResponseFor(Null)]
     \/ /\ blobCache' = blobCache
        /\ gw' = [gw EXCEPT !.pc = "done", !.storeRead = TRUE, !.fault = TRUE,
                            !.response = InternalErrorResponse]
  /\ UNCHANGED << store, bulk, hasIndex, clock, put, get, sweep, others >>

\* The event is over: the browser has the response, or handles the request
\* itself when the listener did not call respondWith.
FetchDone ==
  /\ gw.pc = "done"
  /\ gw' = IdleGw
  /\ UNCHANGED << store, bulk, hasIndex, clock, put, get, sweep, blobCache, others >>

\* The browser stops the idle service worker; the next event starts it with
\* an empty blobCache.
SwRestart ==
  /\ gw.pc \in {"idle", "done"}
  /\ blobCache # << >>
  /\ blobCache' = << >>
  /\ UNCHANGED << store, bulk, hasIndex, clock, put, get, sweep, gw, others >>

\* ------------------------------------------------------ fileValidation.ts

\* A file is [type, name, size, lead]: the declared media type, the name, the
\* size in bytes, and the bytes that file.slice(0, 12) yields (all of the
\* content when the file is shorter).
File(type, name, size, lead) ==
  [type |-> type, name |-> name, size |-> size, lead |-> lead]

ALLOWED_MIME_TYPES ==
  {"image/jpeg", "image/jpg", "image/png", "image/webp", "image/gif"}
ALLOWED_EXTENSIONS ==
  { << ".", "j", "p", "g" >>, << ".", "j", "p", "e", "g" >>,
    << ".", "p", "n", "g" >>, << ".", "w", "e", "b", "p" >>,
    << ".", "g", "i", "f" >> }
MAGIC_NUMBERS ==
  [jpeg |-> << 255, 216, 255 >>, png |-> << 137, 80, 78, 71 >>,
   webp |-> << 82, 73, 70, 70 >>, gif |-> << 71, 73, 70, 56 >>]
MAX_FILE_SIZE == 50 * 1024 * 1024

\* ValidationResult
Valid == [isValid |-> TRUE]
Invalid(error) == [isValid |-> FALSE, error |-> error]

UpperCaseLetters ==
  << "A", "B", "C", "D", "E", "F", "G", "H", "I", "J", "K", "L", "M", "N", "O",
     "P", "Q", "R", "S", "T", "U", "V", "W", "X", "Y", "Z" >>

\* String.prototype.toLowerCase; the tail of a name is made of the letter A.
toLowerCase(n) ==
  LET lower(c) ==
        IF \E i \in 1..26 : UpperCaseLetters[i] = c
        THEN Base36Digits[10 + CHOOSE i \in 1..26 : UpperCaseLetters[i] = c]
        ELSE c
  IN  Name([i \in 1..Len(n.body) |-> lower(n.body[i])]
             \o [i \in 1..n.pad |-> "a"])

\* fileValidation.ts getFileExtension
getFileExtension(fileName) ==
  LET dots == { i \in 1..Len(fileName.body) : fileName.body[i] = "." }
  IN  IF dots = {} THEN EmptyName
      ELSE LET lastDotIndex == CHOOSE i \in dots : \A j \in dots : j <= i
           IN  Padded(SubSeq(fileName.body, lastDotIndex, Len(fileName.body)),
                      fileName.pad)

\* fileValidation.ts validateFileType
validateFileType(file) ==
  IF file.type \notin ALLOWED_MIME_TYPES
  THEN Invalid("Tipo de arquivo nao permitido. Use apenas JPEG, PNG, WebP ou GIF.")
  ELSE LET extension == toLowerCase(getFileExtension(file.name))
       IN  IF extension.body \notin ALLOWED_EXTENSIONS
           THEN Invalid("Extensao de arquivo nao permitida.")
           ELSE Valid

\* fileValidation.ts validateFileSize
validateFileSize(file) ==
  IF file.size > MAX_FILE_SIZE
  THEN Invalid("Arquivo muito grande. Maximo permitido: 50MB")
  ELSE IF file.size = 0
  THEN Invalid("Arquivo vazio nao e permitido.")
  ELSE Valid

\* fileValidation.ts validateFileName, as the ValidationResult it returns.
validateFileNameLeadingDotAllowed(fileName) ==
  IF NameLen(fileName) > MAX_FILENAME_LENGTH
  THEN Invalid("Nome do arquivo muito longo.")
  ELSE IF HasDangerous(fileName)
  THEN Invalid("Nome do arquivo contem caracteres nao permitidos.")
  ELSE IF IncludesDotDot(fileName)
  THEN Invalid("Nome do arquivo invalido.")
  ELSE Valid
validateFileNameResult(fileName) ==
  IF NameLen(fileName) > MAX_FILENAME_LENGTH
  THEN Invalid("Nome do arquivo muito longo.")
  ELSE IF HasDangerous(fileName)
  THEN Invalid("Nome do arquivo contem caracteres nao permitidos.")
  ELSE IF IncludesDotDot(fileName) \/ StartsWithDot(fileName)
  THEN Invalid("Nome do arquivo invalido.")
  ELSE Valid

\* bytes[i] of the Uint8Array: undefined (here -1) beyond its length.
ByteAt(bytes, i) == IF i < Len(bytes) THEN bytes[i + 1] ELSE -1

\* fileValidation.ts validateMagicNumbers, when the bytes could be read.
validateMagicNumbers(file) ==
  LET bytes == file.lead
      isJPEG == /\ ByteAt(bytes, 0) = 255 /\ ByteAt(bytes, 1) = 216
                /\ ByteAt(bytes, 2) = 255
      isPNG == /\ ByteAt(bytes, 0) = 137 /\ ByteAt(bytes, 1) = 80
               /\ ByteAt(bytes, 2) = 78 /\ ByteAt(bytes, 3) = 71
      isWebP == /\ ByteAt(bytes, 0) = 82 /\ ByteAt(bytes, 1) = 73
                /\ ByteAt(bytes, 2) = 70 /\ ByteAt(bytes, 3) = 70
      isGIF == /\ ByteAt(bytes, 0) = 71 /\ ByteAt(bytes, 1) = 73
               /\ ByteAt(bytes, 2) = 70
  IN  IF ~isJPEG /\ ~isPNG /\ ~isWebP /\ ~isGIF
      THEN Invalid("Arquivo corrompido ou nao e uma imagem valida.")
      ELSE Valid

\* The validations of validateFile, in the order it runs them.
ValidationOrderWithoutName == << "type", "size", "magic" >>
ValidationOrder == << "type", "size", "name", "magic" >>

\* The validations that return at once.
SyncValidation(check, file) ==
  CASE check = "type" -> validateFileType(file)
    [] check = "size" -> validateFileSize(file)
    [] check = "name" -> validateFileNameResult(file.name)

\* ran is a history field: the validations evaluated, in order.
IdleValidation ==
  [pc |-> "idle", file |-> Null, ran |-> << >>, result |-> Null, fault |-> FALSE]

\* validateFile from its validation number i up to the first failure or the
\* await of validateMagicNumbers.
RECURSIVE ValidateFrom(_, _)
ValidateFrom(v, i) ==
  IF i > Len(ValidationOrder) THEN [v EXCEPT !.pc = "done", !.result = Valid]
  ELSE LET check == ValidationOrder[i]
           w == [v EXCEPT !.ran = Append(v.ran, check)]
       IN  IF check = "magic" THEN [w EXCEPT !.pc = "magic"]
           ELSE LET r == SyncValidation(check, v.file)
                IN  IF ~r.isValid THEN [w EXCEPT !.pc = "done", !.result = r]
                    ELSE ValidateFrom(w, i + 1)

\* The call of validateFile, up to `await validateMagicNumbers(file)`.
ValidateFile(file) ==
  /\ validation.pc = "idle"
  /\ validation' = ValidateFrom([IdleValidation EXCEPT !.file = file], 1)
  /\ UNCHANGED << store, bulk, hasIndex, clock, put, get, sweep, blobCache, gw,
                  put2, get2, tools >>

\* validateMagicNumbers settles: with its verdict on the bytes, or, when
\* reading them threw, with the failure of its catch block.
ValidateMagicSettled ==
  /\ validation.pc = "magic"
  /\ \/ LET r == validateMagicNumbers(validation.file)
        IN  validation' =
              [validation EXCEPT !.pc = "done", !.result = r]
     \/ validation' =
          [validation EXCEPT !.pc = "done", !.fault = TRUE,
                             !.result = Invalid("Erro ao validar o arquivo.")]
  /\ UNCHANGED << store, bulk, hasIndex, clock, put, get, sweep, blobCache, gw,
                  put2, get2, tools >>

\* The caller has the result.
ValidateReturn ==
  /\ validation.pc = "done"
  /\ validation' = IdleValidation
  /\ UNCHANGED << store, bulk, hasIndex, clock, put, get, sweep, blobCache, gw,
                  put2, get2, tools >>

\* ------------------------------------- fileValidation.ts: sanitizeFileName

\* s.replace(/\.+/g, '.') on the characters of a body
RECURSIVE CollapseDots(_)
CollapseDots(chars) ==
  IF Len(chars) < 2 THEN chars
  ELSE IF chars[1] = "." /\ chars[2] = "." THEN CollapseDots(Tail(chars))
  ELSE << chars[1] >> \o CollapseDots(Tail(chars))

\* s.replace(/^\.+/, '') on the characters of a body
RECURSIVE TrimLeadingDots(_)
TrimLeadingDots(chars) ==
  IF chars # << >> /\ Head(chars) = "." THEN TrimLeadingDots(Tail(chars))
  ELSE chars

\* fileValidation.ts sanitizeFileName: the forbidden characters go, runs of
\* dots become one dot, leading dots go, and the result is cut to 255
\* characters.  The tail of a name holds no dot and no forbidden character.
sanitizeFileNameTrimFirst(fileName) ==
  LET trimmed == [fileName EXCEPT !.body = TrimLeadingDots(@)]
      stripped == StripDangerous(trimmed)
      collapsed == [stripped EXCEPT !.body = CollapseDots(@)]
  IN  Slice(collapsed, MAX_FILENAME_LENGTH)
sanitizeFileNameUntrimmed(fileName) ==
  LET stripped == StripDangerous(fileName)
      collapsed == [stripped EXCEPT !.body = CollapseDots(@)]
  IN  Slice(collapsed, MAX_FILENAME_LENGTH)
sanitizeFileName(fileName) ==
  LET stripped == StripDangerous(fileName)
      collapsed == [stripped EXCEPT !.body = CollapseDots(@)]
      trimmed == [collapsed EXCEPT !.body = TrimLeadingDots(@)]
  IN  Slice(trimmed, MAX_FILENAME_LENGTH)

\* op is the function called; origin, calls and earlier are history fields:
\* the argument of the first call, the number of calls made in a row, each
\* on the argument kept in input, and the result of the call before.
IdleNaming ==
  [pc |-> "idle", op |-> "none", origin |-> EmptyName, input |-> EmptyName,
   output |-> Null, earlier |-> Null, calls |-> 0]

\* sanitizeFileName(fileName)
SanitizeFileName(fileName) ==
  /\ naming.pc = "idle"
  /\ naming' = [IdleNaming EXCEPT !.pc = "done", !.op = "sanitize",
                                  !.origin = fileName, !.input = fileName,
                                  !.output = sanitizeFileName(fileName),
                                  !.calls = 1]
  /\ UNCHANGED << store, bulk, hasIndex, clock, put, get, sweep, blobCache, gw,
                  put2, get2, validation, worker, ui >>

\* sanitizeFileName called on what it returned.
SanitizeAgain ==
  /\ naming.pc = "done"
  /\ naming.op = "sanitize"
  /\ naming.calls = 1
  /\ naming' = [naming EXCEPT !.input = naming.output,
                              !.output = sanitizeFileName(naming.output),
                              !.earlier = naming.output,
                              !.calls = 2]
  /\ UNCHANGED << store, bulk, hasIndex, clock, put, get, sweep, blobCache, gw,
                  put2, get2, validation, worker, ui >>

\* validateFileName(fileName)
ValidateFileName(fileName) ==
  /\ naming.pc = "idle"
  /\ naming' = [IdleNaming EXCEPT !.pc = "done", !.op = "validate",
                                  !.origin = fileName, !.input = fileName,
                                  !.output = validateFileNameResult(fileName),
                                  !.calls = 1]
  /\ UNCHANGED << store, bulk, hasIndex, clock, put, get, sweep, blobCache, gw,
                  put2, get2, validation, worker, ui >>

\* validateFileName called once more on the same name: its regular
\* expression is a literal of the function body, a new object with
\* lastIndex 0 in every call.
ValidateAgain ==
  /\ naming.pc = "done"
  /\ naming.op = "validate"
  /\ naming.calls = 1
  /\ naming' = [naming EXCEPT !.output = validateFileNameResult(naming.input),
                              !.earlier = naming.output,
                              !.calls = 2]
  /\ UNCHANGED << store, bulk, hasIndex, clock, put, get, sweep, blobCache, gw,
                  put2, get2, validation, worker, ui >>

\* The caller has the result.
NamingReturn ==
  /\ naming.pc = "done"
  /\ naming' = IdleNaming
  /\ UNCHANGED << store, bulk, hasIndex, clock, put, get, sweep, blobCache, gw,
                  put2, get2, validation, worker, ui >>

\* ------------------------------------------- the image worker: the optimizer

TARGET_MIN_BYTES == 50 * 1024
TARGET_MAX_BYTES == 100 * 1024
ITERATIONS == 15

\* A quality, given in hundredths, as an integer: the unit is 1/100 divided
\* by 2^15, so that every midpoint of fifteen halvings of [0.1, 0.5] and of
\* [0.5, 0.98] is a whole number.  The model halves exactly, where the code
\* halves in floating point.
Quality(hundredths) == hundredths * (2 ^ ITERATIONS)

\* (minQuality + maxQuality) / 2
Midpoint(minQuality, maxQuality) == (minQuality + maxQuality) \div 2

\* The sizes the encoder may give a blob: either side of each end of the
\* window, and two sizes inside it at different distances from its middle.
EncodedSizes ==
  { TARGET_MIN_BYTES - 1, TARGET_MIN_BYTES, 70000, 95000, TARGET_MAX_BYTES,
    TARGET_MAX_BYTES + 1 }

\* An image is what the encoder makes of it: the size of its WebP encoding
\* at each quality, here one size for each of four bands of quality, below
\* 0.25, below 0.6, below 0.8 and from 0.8.  The sizes need not grow with
\* the quality.
QualityBands == << Quality(25), Quality(60), Quality(80) >>
Images == [1..4 -> EncodedSizes]
EncodedSize(canvas, quality) ==
  IF quality < QualityBands[1] THEN canvas[1]
  ELSE IF quality < QualityBands[2] THEN canvas[2]
  ELSE IF quality < QualityBands[3] THEN canvas[3]
  ELSE canvas[4]

\* canvas.convertToBlob({ type: 'image/webp', quality }), resolved.
getWebpBlob(canvas, quality) ==
  [quality |-> quality, size |-> EncodedSize(canvas, quality),
   type |-> "image/webp"]

\* No blob: a variable not assigned yet.
NoBlob == [none |-> TRUE]

\* Math.abs(blob.size - ((TARGET_MIN_BYTES + TARGET_MAX_BYTES) / 2))
DistanceToTarget(blob) ==
  LET d == blob.size - ((TARGET_MIN_BYTES + TARGET_MAX_BYTES) \div 2)
  IN  IF d < 0 THEN 0 - d ELSE d

\* testBlob.size < TARGET_MIN_BYTES: the image is small at full quality.
SmallAtFullQualityNever(testBlob) == FALSE
SmallAtFullQuality(testBlob) == testBlob.size < TARGET_MIN_BYTES

\* blob.size <= TARGET_MAX_BYTES: the search below 0.5 returns this blob.
AdmissibleBelowWindow(blob) == blob.size < TARGET_MIN_BYTES
Admissible(blob) == blob.size <= TARGET_MAX_BYTES

\* blob.size >= TARGET_MIN_BYTES && blob.size <= TARGET_MAX_BYTES
InWindow(blob) ==
  blob.size >= TARGET_MIN_BYTES /\ blob.size <= TARGET_MAX_BYTES

\* The condition under which a blob of at most TARGET_MAX_BYTES becomes
\* bestBlob.
KeepsBestAlways(blob, closestToTarget) == TRUE
KeepsBest(blob, closestToTarget) ==
  DistanceToTarget(blob) < closestToTarget \/ blob.size >= TARGET_MIN_BYTES

\* The message types the page sends.
MessageTypes == { "HEALTH_CHECK", "CONVERT", "OPTIMIZE_CROPPED" }

\* No image: undefined.
NoImage == << >>

\* The worker with no message in hand.  imageDataUrl is the image of the
\* message, canvas the image drawn on the canvas.  posted holds the messages posted
\* for the message in hand.  search, bisections, nearest and threw are
\* history fields: the loop that ran last, the number of blobs encoded
\* after the two probes, the least distance to the middle of the window
\* among the in-window blobs the search above 0.5 has looked at (-1: none),
\* and whether something threw.
IdleWorker ==
  [pc |-> "idle", type |-> "none", imageDataUrl |-> NoImage,
   canvas |-> NoImage, posted |-> << >>,
   testBlob |-> NoBlob, lowQualityTest |-> NoBlob,
   minQuality |-> 0, maxQuality |-> 0, i |-> 0,
   blob |-> NoBlob, bestBlob |-> NoBlob, closestToTarget |-> 0,
   search |-> "none", bisections |-> 0, nearest |-> -1, threw |-> FALSE]

\* return { blob, size: blob.size } of generateOptimizedWebP, and the
\* postMessage({ status: 'success', ...result }) that follows it.
Succeeded(w, blob) ==
  [w EXCEPT !.pc = "done",
            !.posted = Append(@, [status |-> "success", blob |-> blob,
                                  size |-> blob.size])]

\* The catch block of the handler.
CaughtUnreported(w, message) == [w EXCEPT !.pc = "done"]
Caught(w, message) ==
  [w EXCEPT !.pc = "done",
            !.posted = Append(@, [status |-> "error", message |-> message])]

\* self.onmessage, as far as its first await.
OnMessage(type, imageDataUrl) ==
  /\ worker.pc = "idle"
  /\ worker' =
       IF type = "HEALTH_CHECK"
       THEN [IdleWorker EXCEPT !.pc = "done", !.type = type,
                               !.posted = << [status |-> "health"] >>]
       ELSE [IdleWorker EXCEPT !.pc = "fetch", !.type = type,
                               !.imageDataUrl = imageDataUrl]
  /\ UNCHANGED << store, bulk, hasIndex, clock, put, get, sweep, blobCache, gw,
                  put2, get2, validation, naming, ui >>

\* fetch(imageDataUrl) and response.blob() settled.
Fetched(ok) ==
  /\ worker.pc = "fetch"
  /\ worker' =
       IF ok THEN [worker EXCEPT !.pc = "decode"]
       ELSE [Caught(worker, "Failed to fetch") EXCEPT !.threw = TRUE]
  /\ UNCHANGED << store, bulk, hasIndex, clock, put, get, sweep, blobCache, gw,
                  put2, get2, validation, naming, ui >>

DecodeOutcomes == { "drawn", "undecodable", "no context", "not drawn" }

\* createImageBitmap(blob) settled; then the canvas, its context, drawImage
\* and imageBitmap.close(), and the first call of getWebpBlob.
Decoded(outcome) ==
  /\ worker.pc = "decode"
  /\ worker' =
       IF outcome = "drawn"
       THEN [worker EXCEPT !.pc = "probe98", !.canvas = worker.imageDataUrl]
       ELSE [Caught(worker, outcome) EXCEPT !.threw = TRUE]
  /\ UNCHANGED << store, bulk, hasIndex, clock, put, get, sweep, blobCache, gw,
                  put2, get2, validation, naming, ui >>

\* The start of the search between 0.5 and 0.98.
StartHigh(w) ==
  [w EXCEPT !.pc = "high", !.search = "high",
            !.minQuality = Quality(50), !.maxQuality = Quality(98),
            !.i = 0,
            !.bestBlob = w.testBlob,
            !.closestToTarget = DistanceToTarget(w.testBlob),
            !.nearest = IF w.testBlob.size >= TARGET_MIN_BYTES
                           /\ w.testBlob.size <= TARGET_MAX_BYTES
                        THEN DistanceToTarget(w.testBlob) ELSE -1]

\* getWebpBlob(0.98) resolved.
ProbeEncoded ==
  /\ worker.pc = "probe98"
  /\ LET testBlob == getWebpBlob(worker.canvas, Quality(98))
         w == [worker EXCEPT !.testBlob = testBlob]
     IN  worker' = IF SmallAtFullQuality(testBlob)
                   THEN Succeeded(w, testBlob)
                   ELSE [w EXCEPT !.pc = "probe50"]
  /\ UNCHANGED << store, bulk, hasIndex, clock, put, get, sweep, blobCache, gw,
                  put2, get2, validation, naming, ui >>

\* getWebpBlob(0.5) resolved.
LowProbeEncoded ==
  /\ worker.pc = "probe50"
  /\ LET lowQualityTest == getWebpBlob(worker.canvas, Quality(50))
         w == [worker EXCEPT !.lowQualityTest = lowQualityTest]
     IN  worker' = IF lowQualityTest.size > TARGET_MAX_BYTES
                   THEN [w EXCEPT !.pc = "low", !.search = "low",
                                  !.minQuality = Quality(10),
                                  !.maxQuality = Quality(50), !.i = 0]
                   ELSE StartHigh(w)
  /\ UNCHANGED << store, bulk, hasIndex, clock, put, get, sweep, blobCache, gw,
                  put2, get2, validation, naming, ui >>

\* One turn of the loop between 0.1 and 0.5: getWebpBlob(currentQuality)
\* resolved.  After the last turn the function goes on to the loop between
\* 0.5 and 0.98.
LowCandidateEncoded ==
  /\ worker.pc = "low"
  /\ LET currentQuality == Midpoint(worker.minQuality, worker.maxQuality)
         blob == getWebpBlob(worker.canvas, currentQuality)
         w == [worker EXCEPT !.blob = blob, !.bisections = @ + 1]
         turned == [w EXCEPT !.maxQuality = currentQuality, !.i = @ + 1]
     IN  worker' = IF Admissible(blob) THEN Succeeded(w, blob)
                   ELSE IF turned.i < ITERATIONS THEN turned
                   ELSE StartHigh(turned)
  /\ UNCHANGED << store, bulk, hasIndex, clock, put, get, sweep, blobCache, gw,
                  put2, get2, validation, naming, ui >>

\* One turn of the loop between 0.5 and 0.98: getWebpBlob(currentQuality)
\* resolved.  After the last turn the function returns bestBlob.
HighCandidateEncoded ==
  /\ worker.pc = "high"
  /\ LET currentQuality == Midpoint(worker.minQuality, worker.maxQuality)
         blob == getWebpBlob(worker.canvas, currentQuality)
         distanceToTarget == DistanceToTarget(blob)
         w == [worker EXCEPT
                 !.blob = blob, !.bisections = @ + 1, !.i = @ + 1,
                 !.nearest = IF InWindow(blob)
                                /\ (@ = -1 \/ distanceToTarget < @)
                             THEN distanceToTarget ELSE @]
         perfect == IF InWindow(blob)
                       /\ distanceToTarget < w.closestToTarget
                    THEN [w EXCEPT !.bestBlob = blob,
                                   !.closestToTarget = distanceToTarget]
                    ELSE w
         turned == IF blob.size > TARGET_MAX_BYTES
                   THEN [perfect EXCEPT !.maxQuality = currentQuality]
                   ELSE IF KeepsBest(blob, perfect.closestToTarget)
                   THEN [perfect EXCEPT !.minQuality = currentQuality,
                                        !.bestBlob = blob,
                                        !.closestToTarget = distanceToTarget]
                   ELSE [perfect EXCEPT !.minQuality = currentQuality]
     IN  worker' = IF turned.i < ITERATIONS THEN turned
                   ELSE IF turned.bestBlob = NoBlob
                   THEN [Caught(turned, "Falha ao gerar o blob da imagem.")
                           EXCEPT !.threw = TRUE]
                   ELSE Succeeded(turned, turned.bestBlob)
  /\ UNCHANGED << store, bulk, hasIndex, clock, put, get, sweep, blobCache, gw,
                  put2, get2, validation, naming, ui >>

\* canvas.convertToBlob rejected.
EncoderRejected ==
  /\ worker.pc \in { "probe98", "probe50", "low", "high" }
  /\ worker' = [Caught(worker, "encoding failed") EXCEPT !.threw = TRUE]
  /\ UNCHANGED << store, bulk, hasIndex, clock, put, get, sweep, blobCache, gw,
                  put2, get2, validation, naming, ui >>

\* The page has the message; the worker waits for the next one.
Replied ==
  /\ worker.pc = "done"
  /\ worker' = IdleWorker
  /\ UNCHANGED << store, bulk, hasIndex, clock, put, get, sweep, blobCache, gw,
                  put2, get2, validation, naming, ui >>

\* ------------------------------------------- the page: the worker instances

\* The instances the page may create, the replacement timeouts that may be
\* pending at once, the images of a batch, and the messages an instance
\* may have to reply to at once.
MaxInstances == 3
MaxTimers == 2
MaxImages == 2
MaxOutstanding == 2

\* ModeSelector: onSelectMode(mode)
Modes == { "individual", "batch" }

\* new Worker(workerUrl).  inbox holds the messages posted to the instance
\* and not replied to.
NewWorker == [terminated |-> FALSE, inbox |-> << >>]

\* The page once its effect has run: workerRef.current = createWorker().
\* workerRef is the number of an instance, or 0 for null.
IdlePool(mode) ==
  [mode |-> mode, mounted |-> TRUE, workerRef |-> 1,
   instances |-> << NewWorker >>, timers |-> 0]

\* worker.terminate() on instance i
terminateNever(p, i) == p
terminate(p, i) == [p EXCEPT !.instances[i].terminated = TRUE]

\* workerRef.current = createWorker()
createWorker(p) ==
  [p EXCEPT !.instances = Append(@, NewWorker),
            !.workerRef = Len(p.instances) + 1]

\* worker.postMessage(message) on instance i; a terminated instance takes
\* no message.
postMessage(p, i, message) ==
  IF p.instances[i].terminated THEN p
  ELSE [p EXCEPT !.instances[i].inbox = Append(@, message)]

\* Instance i, if any, can take one more message within the bound.
HasRoom(p, i) ==
  IF i = 0 THEN TRUE ELSE Len(p.instances[i].inbox) < MaxOutstanding

\* The inbox without its k-th message.
Without(inbox, k) ==
  [j \in 1..(Len(inbox) - 1) |-> IF j < k THEN inbox[j] ELSE inbox[j + 1]]

\* The state no action of the page touches.  An instance is created only
\* when the bound leaves room for it and for the instances the pending
\* timeouts may create.
beside ==
  << store, bulk, hasIndex, clock, get, sweep, blobCache, gw, put2, get2,
     naming, worker >>

\* The effect of the page runs: workerRef.current = createWorker().
EffectRun ==
  /\ ~pool.mounted
  /\ Len(pool.instances) + pool.timers < MaxInstances
  /\ pool' = [createWorker(pool) EXCEPT !.mounted = TRUE]
  /\ UNCHANGED << beside, put, validation, page, batch >>

\* The cleanup of the effect, on unmount or before the effect runs again.
EffectCleanup ==
  /\ pool.mounted
  /\ pool' = [(IF pool.workerRef # 0 THEN terminate(pool, pool.workerRef)
               ELSE pool)
                EXCEPT !.workerRef = 0, !.mounted = FALSE]
  /\ UNCHANGED << beside, put, validation, page, batch >>

\* worker.onerror of instance i: the replacement is scheduled.
WorkerError(i) ==
  /\ i \in 1..Len(pool.instances)
  /\ ~pool.instances[i].terminated
  /\ pool.timers < MaxTimers
  /\ Len(pool.instances) + pool.timers < MaxInstances
  /\ pool' = [pool EXCEPT !.timers = @ + 1]
  /\ UNCHANGED << beside, put, validation, page, batch >>

\* The callback of setTimeout(..., 1000) in worker.onerror.
ReplacementTimeout ==
  /\ pool.timers > 0
  /\ pool.workerRef # 0 => Len(pool.instances) < MaxInstances
  /\ pool' = [(IF pool.workerRef # 0
               THEN createWorker(terminate(pool, pool.workerRef))
               ELSE pool)
                EXCEPT !.timers = @ - 1]
  /\ UNCHANGED << beside, put, validation, page, batch >>

\* ------------------------------------------ the page: the mode 'individual'

\* The media types of the model that start with 'image/'.
ImageTypes == { "image/png", "image/jpg", "image/gif", "image/svg+xml" }

\* file.type.startsWith('image/')
StartsWithImage(type) == type \in ImageTypes

\* step is the state of that name; pc is the position of the upload in
\* hand, via the path it came in by and file the file.
IdlePage == [step |-> "idle", pc |-> "idle", via |-> "none", file |-> Null]

\* The blob of a success reply.
ConvertedBlob == Blob(1, 0, "image/webp")

\* A message to the worker.  from is a history field: the caller that
\* posted it.
Message(type, from, file) == [type |-> type, from |-> from, file |-> file]

\* handleFileDrop(file), up to reader.readAsDataURL(file)
handleFileDrop(p, file) ==
  IF ~StartsWithImage(file.type)
  THEN [p EXCEPT !.pc = "idle", !.via = "none", !.file = Null]
  ELSE [p EXCEPT !.step = "idle", !.pc = "reading", !.file = file]

\* Dropzone handleDrop, and the onChange of its file input, up to
\* `await validateFile(file)`.
DropzoneFile(via, file) ==
  /\ pool.mode = "individual"
  /\ pool.mounted
  /\ page.step = "idle"
  /\ page.pc = "idle"
  /\ validation.pc = "idle"
  /\ validation' = ValidateFrom([IdleValidation EXCEPT !.file = file], 1)
  /\ page' = [page EXCEPT !.pc = "validating", !.via = via, !.file = file]
  /\ UNCHANGED << beside, put, pool, batch >>

\* The rest of the handler: the toast of an invalid file, or
\* onDrop(sanitizedFile), which is handleFileDrop.
DropzoneValidated ==
  /\ page.pc = "validating"
  /\ validation.pc = "done"
  /\ validation' = IdleValidation
  /\ page' =
       IF ~validation.result.isValid
       THEN [page EXCEPT !.pc = "idle", !.via = "none", !.file = Null]
       ELSE handleFileDrop(page,
              [page.file EXCEPT !.name = sanitizeFileName(@)])
  /\ UNCHANGED << beside, put, pool, batch >>

\* handlePaste with a clipboard whose first image item is file.  The drop
\* onto the finished view calls handleFileDrop in the same way, in the step
\* 'finished'.
Paste(file) ==
  /\ pool.mode = "individual"
  /\ pool.mounted
  /\ page.step = "idle"
  /\ page.pc = "idle"
  /\ StartsWithImage(file.type)
  /\ page' = handleFileDrop([page EXCEPT !.via = "paste"], file)
  /\ UNCHANGED << beside, put, validation, pool, batch >>

\* reader.onload, which is convertImage(imageDataUrl), or reader.onerror.
FileRead(ok) ==
  /\ page.pc = "reading"
  /\ HasRoom(pool, pool.workerRef)
  /\ IF ok /\ pool.workerRef # 0
     THEN /\ page' = [page EXCEPT !.step = "converting", !.pc = "converting"]
          /\ pool' = postMessage(pool, pool.workerRef,
                                 Message("CONVERT", "page", page.file))
     ELSE /\ page' = [page EXCEPT !.pc = "idle", !.via = "none", !.file = Null]
          /\ pool' = pool
  /\ UNCHANGED << beside, put, validation, batch >>

\* The k-th message of instance i is replied to, and worker.onmessage of
\* the page runs, up to `saveImageToDB(blob)`.
PageOnMessage(i, k, status, random) ==
  /\ pool.mode = "individual"
  /\ i \in 1..Len(pool.instances)
  /\ ~pool.instances[i].terminated
  /\ k \in 1..Len(pool.instances[i].inbox)
  /\ pool' = [pool EXCEPT !.instances[i].inbox = Without(@, k)]
  /\ IF status = "success"
     THEN /\ put.pc = "idle"
          /\ put' = saveImageToDBCalled(ConvertedBlob, NoName, random)
          /\ page' = [page EXCEPT !.pc = "saving"]
     ELSE /\ put' = put
          /\ page' = [IdlePage EXCEPT !.step = "idle"]
  /\ UNCHANGED << beside, validation, batch >>

\* saveImageToDB(blob) settled: its then, or its catch.
PageSaveSettled ==
  /\ page.pc = "saving"
  /\ put.pc = "done"
  /\ put' = IdlePut
  /\ page' = [IdlePage EXCEPT
                !.step = IF put.result.status = "ok" THEN "finished"
                         ELSE "idle"]
  /\ UNCHANGED << beside, validation, pool, batch >>

\* --------------------------------------------------- BatchMode.tsx

\* cur is the image the loop of processImages is at, todo the images of its
\* closure still to come, on the instance its message handler listens on.
\* saving and eon are the same for the call of handleSaveCroppedImage.
\* crossed is a history field: a handler was settled by the reply to a
\* message that another caller posted.
IdleBatch ==
  [images |-> << >>, isProcessing |-> FALSE, todo |-> << >>, cur |-> 0,
   pc |-> "idle", on |-> 0, editingImage |-> 0, saving |-> FALSE, eon |-> 0,
   crossed |-> FALSE]

\* addImages(files) with one file, from handleDrop or handleFileInput.
AddImages(file) ==
  /\ pool.mode = "batch"
  /\ pool.mounted
  /\ batch.editingImage = 0
  /\ ~batch.isProcessing
  /\ Len(batch.images) < MaxImages
  /\ StartsWithImage(file.type)
  /\ batch' = [batch EXCEPT
                 !.images = Append(@, [file |-> file, status |-> "pending"])]
  /\ UNCHANGED << beside, put, validation, pool, page >>

\* The images of the closure that are not 'done', in order.
RECURSIVE NotDone(_, _)
NotDone(images, i) ==
  IF i > Len(images) THEN << >>
  ELSE IF images[i].status = "done" THEN NotDone(images, i + 1)
  ELSE << i >> \o NotDone(images, i + 1)

\* The for loop of processImages from the top of a turn: up to the await
\* of the reader, or through setIsProcessing(false) after the last turn.
NextImage(b) ==
  IF b.todo = << >>
  THEN [b EXCEPT !.isProcessing = FALSE, !.pc = "idle", !.cur = 0]
  ELSE [b EXCEPT !.cur = Head(b.todo), !.todo = Tail(b.todo),
                 !.images[Head(b.todo)].status = "processing",
                 !.pc = "reading"]

\* The click on the convert button, shown while an image is 'pending' and
\* disabled while isProcessing.
ProcessImages ==
  /\ pool.mode = "batch"
  /\ pool.mounted
  /\ batch.editingImage = 0
  /\ ~batch.isProcessing
  /\ \E i \in 1..Len(batch.images) : batch.images[i].status = "pending"
  /\ pool.workerRef # 0
  /\ batch' = NextImage([batch EXCEPT !.isProcessing = TRUE,
                                      !.todo = NotDone(batch.images, 1)])
  /\ UNCHANGED << beside, put, validation, pool, page >>

\* The reader of processImages settled: the handler is added and CONVERT
\* posted, both on workerRef.current if there is one; or the catch block
\* runs and the loop goes on.
BatchFileRead(ok) ==
  /\ batch.pc = "reading"
  /\ HasRoom(pool, pool.workerRef)
  /\ IF ok
     THEN /\ batch' = [batch EXCEPT !.pc = "awaiting", !.on = pool.workerRef]
          /\ pool' = IF pool.workerRef # 0
                     THEN postMessage(pool, pool.workerRef,
                            Message("CONVERT", "batch",
                                    batch.images[batch.cur].file))
                     ELSE pool
     ELSE /\ batch' = NextImage([batch EXCEPT
                                   !.images[batch.cur].status = "pending"])
          /\ pool' = pool
  /\ UNCHANGED << beside, put, validation, page >>

\* handleEditImage(image), from the button of a 'done' image.
EditImage(k) ==
  /\ pool.mode = "batch"
  /\ pool.mounted
  /\ batch.editingImage = 0
  /\ k \in 1..Len(batch.images)
  /\ batch.images[k].status = "done"
  /\ batch' = [batch EXCEPT !.editingImage = k]
  /\ UNCHANGED << beside, put, validation, pool, page >>

\* onCancel of the cropper
CancelEdit ==
  /\ batch.editingImage # 0
  /\ ~batch.saving
  /\ batch' = [batch EXCEPT !.editingImage = 0]
  /\ UNCHANGED << beside, put, validation, pool, page >>

\* handleSaveCroppedImage, up to its await.
SaveCropped ==
  /\ pool.mounted
  /\ batch.editingImage # 0
  /\ ~batch.saving
  /\ pool.workerRef # 0
  /\ HasRoom(pool, pool.workerRef)
  /\ batch' = [batch EXCEPT !.saving = TRUE, !.eon = pool.workerRef]
  /\ pool' = postMessage(pool, pool.workerRef,
                         Message("OPTIMIZE_CROPPED", "editor", Null))
  /\ UNCHANGED << beside, put, validation, page >>

\* The k-th message of instance i is replied to with status, and the
\* handlers listening on the instance run: that of processImages, which
\* goes on with its loop, and that of handleSaveCroppedImage.
BatchOnMessage(i, k, status) ==
  /\ pool.mode = "batch"
  /\ i \in 1..Len(pool.instances)
  /\ ~pool.instances[i].terminated
  /\ k \in 1..Len(pool.instances[i].inbox)
  /\ pool' = [pool EXCEPT !.instances[i].inbox = Without(@, k)]
  /\ LET message == pool.instances[i].inbox[k]
         converted ==
           IF batch.pc = "awaiting" /\ batch.on = i
           THEN NextImage([batch EXCEPT
                  !.images[batch.cur].status =
                     IF status = "success" THEN "done" ELSE "pending",
                  !.on = 0,
                  !.crossed = @ \/ message.from # "batch"])
           ELSE batch
     IN  batch' =
           IF converted.saving /\ converted.eon = i
           THEN [converted EXCEPT
                   !.saving = FALSE, !.eon = 0, !.editingImage = 0,
                   !.crossed = @ \/ message.from # "editor"]
           ELSE converted
  /\ UNCHANGED << beside, put, validation, page >>

\* ----------------------------------------------------- the store's callers

\* What a database left by earlier sessions may hold under a tracked key:
\* records with the checksum of their payload, with none (a write path that
\* omits it), or with one that is not the payload's.
PersistedBlobs == { Blob(1, 0, "image/webp"), Blob(1, 0, "text/html") }
PersistedChecksums(b) ==
  { NoChecksum, Digest(b), Digest(Blob(b.size, 1 - b.fill, b.type)) }
PersistedRecords(times) ==
  UNION { { Record(b, t, c) : t \in times, c \in PersistedChecksums(b) } :
          b \in PersistedBlobs }

PersistedStores(keys, times) ==
  UNION { [K -> PersistedRecords(times)] : K \in SUBSET keys }

StoreKeys == { Name(<< "a" >>) }

PutBlobs ==
  { Null, Blob(0, 0, "image/webp"), Blob(1, 0, "image/webp"),
    Blob(MAX_BLOB_SIZE, 1, "image/png"), Blob(MAX_BLOB_SIZE + 1, 0, "image/jpeg"),
    Blob(1, 0, "text/html") }

StoreNames ==
  { Name(b) : b \in SeqsUpTo({"a", "<"}, MaxBody) }
    \cup { Padded(<< "a" >>, MAX_FILENAME_LENGTH) }
    \cup { Name(<< "." >>), Name(<< ".", "a" >>), Name(<< "a", ".", "<", "." >>) }

InitStore ==
  /\ store \in PersistedStores(StoreKeys, { Times[1] })
  /\ bulk \in { 0, MAX_STORED_IMAGES - 1, MAX_STORED_IMAGES }
  /\ hasIndex = TRUE
  /\ clock = 2
  /\ put = IdlePut
  /\ get = IdleGet
  /\ sweep = IdleSweep
  /\ blobCache = << >>
  /\ gw = IdleGw
  /\ put2 = IdlePut
  /\ get2 = IdleGet
  /\ validation = IdleValidation
  /\ naming = IdleNaming
  /\ worker = IdleWorker
  /\ pool = IdlePool("individual")
  /\ page = IdlePage
  /\ batch = IdleBatch

NextStore ==
  \/ \E b \in PutBlobs, f \in StoreNames \cup {NoName}, r \in RandomSuffixes :
       PutCall(b, f, r)
  \/ PutOpened
  \/ PutCounted
  \/ PutHashed
  \/ \E f \in StoreNames : GetCall(f)
  \/ GetOpened
  \/ GetRead
  \/ GetVerified
  \/ PutReturn
  \/ GetReturn

SpecStore == InitStore /\ [][NextStore]_vars

RequestTails == { Padded(b, p) : b \in Bodies, p \in Pads }

GatewayKeys == { Name(<< "a" >>) }

InitGateway ==
  /\ store \in PersistedStores(GatewayKeys, { Times[1] })
  /\ bulk = 0
  /\ hasIndex \in BOOLEAN
  /\ clock = 3
  /\ put = IdlePut
  /\ get = IdleGet
  /\ sweep = IdleSweep
  /\ blobCache = << >>
  /\ gw = IdleGw
  /\ put2 = IdlePut
  /\ get2 = IdleGet
  /\ validation = IdleValidation
  /\ naming = IdleNaming
  /\ worker = IdleWorker
  /\ pool = IdlePool("individual")
  /\ page = IdlePage
  /\ batch = IdleBatch

NextGateway ==
  \/ \E o \in {SelfOrigin, OtherOrigin}, t \in RequestTails : Fetch(o, t)
  \/ GwOpened
  \/ GwRead
  \/ FetchDone
  \/ SwRestart
  \/ CleanupOldImages

SpecGateway == InitGateway /\ [][NextGateway]_vars

\* The platform delivers the events of a pending request.
FairSpecGateway ==
  SpecGateway /\ WF_vars(GwOpened) /\ WF_vars(GwRead)

\* The sweep, with a caller of put and get beside it.  The records were
\* written at the first two instants; the page opened the database, so the
\* store has its index.
SweepKeys == { Name(<< "a" >>), Name(<< "b" >>) }
SweepRecords ==
  { Record(Blob(1, 0, "image/webp"), t, Digest(Blob(1, 0, "image/webp"))) :
      t \in { Times[1], Times[2] } }
SweepBlob == Blob(1, 1, "image/png")

InitSweep ==
  /\ store \in UNION { [K -> SweepRecords] : K \in SUBSET SweepKeys }
  /\ bulk \in { 0, 2 }
  /\ hasIndex = TRUE
  /\ clock = 2
  /\ put = IdlePut
  /\ get = IdleGet
  /\ sweep = IdleSweep
  /\ blobCache = << >>
  /\ gw = IdleGw
  /\ put2 = IdlePut
  /\ get2 = IdleGet
  /\ validation = IdleValidation
  /\ naming = IdleNaming
  /\ worker = IdleWorker
  /\ pool = IdlePool("individual")
  /\ page = IdlePage
  /\ batch = IdleBatch

NextSweep ==
  \/ CleanupOldImages
  \/ Tick
  \/ \E f \in SweepKeys : PutCall(SweepBlob, f, << >>)
  \/ PutOpened
  \/ PutCounted
  \/ PutHashed
  \/ PutReturn
  \/ \E f \in SweepKeys : GetCall(f)
  \/ GetOpened
  \/ GetRead
  \/ GetVerified
  \/ GetReturn

SpecSweep == InitSweep /\ [][NextSweep]_vars

\* Two callers of put and two of get at once, and the sweep, on a store one
\* or two records short of its limit, or at it, whose records are more than
\* a day old.  The second callers use one key each.
RaceKeys == { Name(<< "a" >>), Name(<< "b" >>) }
RaceRecords ==
  { Record(Blob(1, 0, "image/webp"), Times[1], c) :
      c \in { NoChecksum, Digest(Blob(1, 0, "image/webp")) } }
RaceBlob == Blob(1, 1, "image/png")

InitRace ==
  /\ store \in UNION { [K -> RaceRecords] : K \in SUBSET { Name(<< "a" >>) } }
  /\ bulk \in { MAX_STORED_IMAGES - 2, MAX_STORED_IMAGES - 1 }
  /\ hasIndex = TRUE
  /\ clock = 4
  /\ put = IdlePut
  /\ get = IdleGet
  /\ sweep = IdleSweep
  /\ blobCache = << >>
  /\ gw = IdleGw
  /\ put2 = IdlePut
  /\ get2 = IdleGet
  /\ validation = IdleValidation
  /\ naming = IdleNaming
  /\ worker = IdleWorker
  /\ pool = IdlePool("individual")
  /\ page = IdlePage
  /\ batch = IdleBatch

NextRace ==
  \/ \E f \in RaceKeys : PutCall(RaceBlob, f, << >>)
  \/ PutOpened
  \/ PutCounted
  \/ PutHashed
  \/ PutReturn
  \/ Put2Call(RaceBlob, Name(<< "b" >>), << >>)
  \/ Put2Opened
  \/ Put2Counted
  \/ Put2Hashed
  \/ Put2Return
  \/ \E f \in RaceKeys : GetCall(f)
  \/ GetOpened
  \/ GetRead
  \/ GetVerified
  \/ GetReturn
  \/ Get2Call(Name(<< "a" >>))
  \/ Get2Opened
  \/ Get2Read
  \/ Get2Verified
  \/ Get2Return
  \/ CleanupOldImages

SpecRace == InitRace /\ [][NextRace]_vars

\* The files handed to validateFile.
FileTypes == { "image/png", "image/jpg", "image/gif", "text/html", "" }
FileNames ==
  { Name(<< "a", ".", "p", "n", "g" >>), Name(<< "a", ".", "P", "N", "G" >>),
    Name(<< "a", ".", "g", "i", "f" >>), Name(<< "a", ".", "t", "x", "t" >>),
    Name(<< "a" >>), Name(<< ".", "p", "n", "g" >>),
    Name(<< "a", "<", ".", "p", "n", "g" >>),
    Name(<< "a", ".", ".", "p", "n", "g" >>),
    Padded(<< "a", ".", "p", "n", "g" >>, MAX_FILENAME_LENGTH) }
\* Contents: the leading bytes of a file of 12 bytes or more, and whole
\* files shorter than that.
LongLeads ==
  { MAGIC_NUMBERS.jpeg \o [i \in 1..9 |-> 0], MAGIC_NUMBERS.png \o [i \in 1..8 |-> 0],
    MAGIC_NUMBERS.webp \o [i \in 1..8 |-> 0], MAGIC_NUMBERS.gif \o [i \in 1..8 |-> 0],
    << 71, 73, 70, 0 >> \o [i \in 1..8 |-> 0], [i \in 1..12 |-> 0] }
ShortFiles ==
  { << >>, << 71, 73, 70 >>, << 137, 80, 78 >>, MAGIC_NUMBERS.jpeg,
    MAGIC_NUMBERS.png, << 255, 216 >> }
FileContents ==
  { [size |-> z, lead |-> l] : z \in { 12, MAX_FILE_SIZE, MAX_FILE_SIZE + 1 },
                               l \in LongLeads }
    \cup { [size |-> Len(l), lead |-> l] : l \in ShortFiles }
Files ==
  { File(t, n, c.size, c.lead) : t \in FileTypes, n \in FileNames,
                                 c \in FileContents }

InitValidate ==
  /\ store = << >>
  /\ bulk = 0
  /\ hasIndex = TRUE
  /\ clock = 1
  /\ put = IdlePut
  /\ get = IdleGet
  /\ sweep = IdleSweep
  /\ blobCache = << >>
  /\ gw = IdleGw
  /\ put2 = IdlePut
  /\ get2 = IdleGet
  /\ validation = IdleValidation
  /\ naming = IdleNaming
  /\ worker = IdleWorker
  /\ pool = IdlePool("individual")
  /\ page = IdlePage
  /\ batch = IdleBatch

NextValidate ==
  \/ \E f \in Files : ValidateFile(f)
  \/ ValidateMagicSettled
  \/ ValidateReturn

SpecValidate == InitValidate /\ [][NextValidate]_vars

\* The names given to the name functions: heads over a letter, the dot, a
\* forbidden punctuation character and a control byte, with tails that bring
\* the length to either side of 255.
NamingChars == {"a", ".", "<", "^A"}
NamingInputs ==
  { Padded(b, n) : b \in SeqsUpTo(NamingChars, MaxNameBody), n \in Pads }

InitNames == InitValidate

NextNames ==
  \/ \E n \in NamingInputs : SanitizeFileName(n)
  \/ SanitizeAgain
  \/ \E n \in NamingInputs : ValidateFileName(n)
  \/ ValidateAgain
  \/ NamingReturn

SpecNames == InitNames /\ [][NextNames]_vars

InitOptimizer == InitValidate

NextOptimizer ==
  \/ \E t \in MessageTypes, u \in Images : OnMessage(t, u)
  \/ \E ok \in BOOLEAN : Fetched(ok)
  \/ \E o \in DecodeOutcomes : Decoded(o)
  \/ ProbeEncoded
  \/ LowProbeEncoded
  \/ LowCandidateEncoded
  \/ HighCandidateEncoded
  \/ EncoderRejected
  \/ Replied

SpecOptimizer == InitOptimizer /\ [][NextOptimizer]_vars

\* A promise the handler awaits settles.
Settled ==
  \/ \E ok \in BOOLEAN : Fetched(ok)
  \/ \E o \in DecodeOutcomes : Decoded(o)
  \/ ProbeEncoded
  \/ LowProbeEncoded
  \/ LowCandidateEncoded
  \/ HighCandidateEncoded
  \/ EncoderRejected

\* Every promise the handler awaits settles.
FairSpecOptimizer == SpecOptimizer /\ WF_vars(Settled)

\* indexeddb.ts generateImageURL: the path '/imagens-geradas/' + filename, as
\* the prefix and what follows it.
generateImageURL(filename) == [prefix |-> IMAGE_PATH_PREFIX, tail |-> filename]

\* The keys saveImageToDB computes: the sanitized filenames that are not
\* empty, and the generated names.
PutKeys ==
  ({ sanitizeFilename(f) : f \in StoreNames } \ { EmptyName })
    \cup { generateUniqueFilename(Times[t], r) :
             t \in 1..Len(Times), r \in RandomSuffixes }

\* A store holding one sound record under a key of saveImageToDB, and
\* requests for the virtual path of that key.
InitPath ==
  /\ store \in { [K \in {k} |-> Record(b, Times[1], Digest(b))] :
                   k \in PutKeys,
                   b \in { Blob(1, 0, "image/webp"), Blob(1, 1, "image/png") } }
  /\ bulk = 0
  /\ hasIndex = TRUE
  /\ clock = 2
  /\ put = IdlePut
  /\ get = IdleGet
  /\ sweep = IdleSweep
  /\ blobCache = << >>
  /\ gw = IdleGw
  /\ put2 = IdlePut
  /\ get2 = IdleGet
  /\ validation = IdleValidation
  /\ naming = IdleNaming
  /\ worker = IdleWorker
  /\ pool = IdlePool("individual")
  /\ page = IdlePage
  /\ batch = IdleBatch

NextPath ==
  \/ \E k \in DOMAIN store : Fetch(SelfOrigin, generateImageURL(k).tail)
  \/ GwOpened
  \/ GwRead
  \/ FetchDone
  \/ SwRestart

SpecPath == InitPath /\ [][NextPath]_vars

\* The files given to the page: one that passes validateFile; one of an
\* allowed type whose bytes are no image; one of an image type that is not
\* allowed; one that is no image by its type.
IngressFiles ==
  { File("image/png", Name(<< "a", ".", "p", "n", "g" >>), 12,
         MAGIC_NUMBERS.png \o [i \in 1..8 |-> 0]),
    File("image/png", Name(<< "a", ".", "p", "n", "g" >>), 12,
         [i \in 1..12 |-> 0]),
    File("image/svg+xml", Name(<< "a", ".", "p", "n", "g" >>), 12,
         [i \in 1..12 |-> 0]),
    File("text/html", Name(<< "a", ".", "t", "x", "t" >>), 12,
         [i \in 1..12 |-> 0]) }

ReplyStatuses == { "success", "error" }

InitIngress ==
  /\ store = << >>
  /\ bulk = 0
  /\ hasIndex = TRUE
  /\ clock = 1
  /\ put = IdlePut
  /\ get = IdleGet
  /\ sweep = IdleSweep
  /\ blobCache = << >>
  /\ gw = IdleGw
  /\ put2 = IdlePut
  /\ get2 = IdleGet
  /\ validation = IdleValidation
  /\ naming = IdleNaming
  /\ worker = IdleWorker
  /\ pool \in { IdlePool(mode) : mode \in Modes }
  /\ page = IdlePage
  /\ batch = IdleBatch

BatchSettled ==
  \/ \E ok \in BOOLEAN : BatchFileRead(ok)
  \/ \E i \in 1..MaxInstances, k \in 1..MaxOutstanding, s \in ReplyStatuses :
       BatchOnMessage(i, k, s)

\* Uploads by every path, with a worker that does not fail.
NextIngress ==
  \/ \E via \in { "drop", "picker" }, f \in IngressFiles : DropzoneFile(via, f)
  \/ ValidateMagicSettled
  \/ DropzoneValidated
  \/ \E f \in IngressFiles : Paste(f)
  \/ \E ok \in BOOLEAN : FileRead(ok)
  \/ \E i \in 1..MaxInstances, s \in ReplyStatuses, r \in RandomSuffixes :
       PageOnMessage(i, 1, s, r)
  \/ PutOpened
  \/ PutCounted
  \/ PutHashed
  \/ PageSaveSettled
  \/ \E f \in IngressFiles : AddImages(f)
  \/ ProcessImages
  \/ BatchSettled

SpecIngress == InitIngress /\ [][NextIngress]_vars

\* The files of the images of a batch.
BatchFiles == { f \in IngressFiles : f.type = "image/png" }

InitBatch ==
  /\ InitIngress
  /\ pool.mode = "batch"

\* A batch, with a worker that may fail.
NextBatch ==
  \/ \E i \in 1..MaxInstances : WorkerError(i)
  \/ ReplacementTimeout
  \/ \E f \in BatchFiles : AddImages(f)
  \/ ProcessImages
  \/ BatchSettled

SpecBatch == InitBatch /\ [][NextBatch]_vars

\* The reader and the worker settle what they are asked, and a timeout
\* fires.
FairSpecBatch ==
  SpecBatch /\ WF_vars(BatchSettled) /\ WF_vars(ReplacementTimeout)

\* A batch and its editor, with a worker that does not fail.
NextEditor ==
  \/ \E f \in BatchFiles : AddImages(f)
  \/ ProcessImages
  \/ \E k \in 1..MaxImages : EditImage(k)
  \/ CancelEdit
  \/ SaveCropped
  \/ BatchSettled

SpecEditor == InitBatch /\ [][NextEditor]_vars

InitInstances ==
  /\ InitIngress
  /\ pool.mode = "individual"

\* The page mounted and unmounted, with pasted uploads and a worker that
\* may fail.
NextInstances ==
  \/ EffectRun
  \/ EffectCleanup
  \/ \E i \in 1..MaxInstances : WorkerError(i)
  \/ ReplacementTimeout
  \/ \E f \in IngressFiles : Paste(f)
  \/ \E ok \in BOOLEAN : FileRead(ok)
  \/ \E i \in 1..MaxInstances, s \in ReplyStatuses, r \in RandomSuffixes :
       PageOnMessage(i, 1, s, r)
  \/ PutOpened
  \/ PutCounted
  \/ PutHashed
  \/ PageSaveSettled

SpecInstances == InitInstances /\ [][NextInstances]_vars

\* ------------------------------------------------------ claims: the store

\* C1: a put of a payload with 0 < size <= 50 MiB and an allowed media type,
\* followed by a get on the key of that put, yields the payload of the put.
C1_GetAfterPutYieldsPayload ==
  (get.pc = "done" /\ get.expect # Null /\ ~get.fault)
    => get.result = get.expect

\* C2: while the store holds MAX_STORED_IMAGES records or more, a put fails
\* at its count with the capacity error, and no step of it changes a record.
C2_FullStoreRejectsPut ==
  [][ (put' # put /\ Count >= MAX_STORED_IMAGES)
        => /\ store' = store
           /\ bulk' = bulk
           /\ (put.pc = "count" /\ ~put'.fault)
                => /\ put'.pc = "done"
                   /\ put'.result = SaveError("Storage limit reached") ]_vars

C2_Witness ==
  /\ put.pc = "done"
  /\ put.result = SaveError("Storage limit reached")
  /\ put.seen = MAX_STORED_IMAGES
  /\ Cardinality(DOMAIN store) > 0

\* C3: the store's get returns no payload whose digest differs from the
\* checksum stored with it; on a mismatch, or when the digest cannot be
\* computed, it returns null.
C3_GetFailsClosed ==
  (get.pc = "done" /\ get.rec # Null /\ get.rec.checksum # NoChecksum)
    => /\ get.result # Null
         => /\ get.result = get.rec.blob
            /\ Digest(get.result) = get.rec.checksum
       /\ (Digest(get.rec.blob) # get.rec.checksum \/ get.fault)
         => get.result = Null

C3_Witness ==
  /\ get.pc = "done"
  /\ get.rec # Null
  /\ get.rec.checksum # NoChecksum
  /\ Digest(get.rec.blob) # get.rec.checksum
  /\ validateBlob(get.rec.blob)
  /\ ~get.fault
  /\ get.result = Null

\* ---------------------------------------------- claims: concurrent callers

\* C14: the store never holds more than MAX_STORED_IMAGES records, whatever
\* the interleaving of the two puts, the two gets and the sweep.
C14_NeverAboveCapacity == Count <= MAX_STORED_IMAGES

\* Both puts counted 99 records, for two new keys, and went on to the write.
C14_Witness ==
  /\ put.pc = "done" /\ put2.pc = "done"
  /\ ~put.fault /\ ~put2.fault
  /\ put.blob # Null /\ put2.blob # Null
  /\ put.seen = MAX_STORED_IMAGES - 1
  /\ put2.seen = MAX_STORED_IMAGES - 1
  /\ put.name # put2.name
  /\ put.result.status = "error" /\ put2.result.status = "error"

\* C15: the write of a put whose key is live replaces the record under the
\* key by the payload, the timestamp and the checksum of that put, and
\* leaves every other record, and the number of records, as they were.
C15_PutReplacesLiveKey ==
  [][ (/\ put.pc = "hash" /\ put'.pc = "done" /\ ~put'.fault
       /\ put.name \in DOMAIN store)
        => /\ DOMAIN store' = DOMAIN store
           /\ bulk' = bulk
           /\ \A k \in DOMAIN store :
                store'[k] = IF k = put.name
                            THEN Record(put.blob, now, Digest(put.blob))
                            ELSE store[k] ]_vars

\* A record as one put, or an earlier session, wrote it.
WholeRecord(rec) ==
  \/ rec \in RaceRecords
  \/ rec.blob = RaceBlob /\ rec.checksum = Digest(RaceBlob)

\* The record under the key can be served: its payload is valid and has the
\* digest stored with it.
Servable(rec) ==
  /\ validateBlob(rec.blob)
  /\ rec.checksum # NoChecksum => Digest(rec.blob) = rec.checksum

\* What C16 says of one call g of get.
GetSeesWholeRecord(g) ==
  g.pc = "done"
    => /\ g.result # Null
            => /\ g.rec # Null
               /\ WholeRecord(g.rec)
               /\ g.result = g.rec.blob
               /\ g.rec.checksum # NoChecksum
                    => Digest(g.result) = g.rec.checksum
       /\ (~g.fault /\ ~sweep.ran /\ g.name \in DOMAIN store
              /\ Servable(store[g.name]))
            => g.result = store[g.name].blob

SanitizingChanges(n) ==
  \/ n = EmptyName
  \/ HasDangerous(n)
  \/ NameLen(n) > 255

\* C17: a get for a filename that sanitizing empties or changes returns
\* null at once: in the store module the call ends without opening the
\* database, and in the gateway getImageFromDB returns before its cache
\* lookup.
C17_UnsanitaryNameIsNotLookedUp ==
  /\ [][ (get.pc = "idle" /\ get'.pc # "idle" /\ SanitizingChanges(get'.name))
          => (get'.pc = "done" /\ get'.result = Null /\ get'.rec = Null) ]_vars
  /\ [](\A f \in StoreNames \cup {EmptyName} :
          SanitizingChanges(f)
            => swGetImageFromDB(f) =
                 [pc |-> "done", cacheRead |-> FALSE, result |-> Null])

\* A get for a name that sanitizing would turn into a live key.
C17_Witness ==
  /\ get.pc = "done"
  /\ HasDangerous(get.name)
  /\ StripDangerous(get.name) \in DOMAIN store
  /\ Servable(store[StripDangerous(get.name)])
  /\ get.result = Null

\* -------------------------------------------------- claims: file validation

\* The four checks in the order of the claim, each with what it says of the
\* file, as far as the first one that fails.
ChecksUpToFirstFailure(file) ==
  LET checks == << "type", "size", "name", "magic" >>
      verdict(c) == CASE c = "type" -> validateFileType(file)
                      [] c = "size" -> validateFileSize(file)
                      [] c = "name" -> validateFileNameResult(file.name)
                      [] c = "magic" -> validateMagicNumbers(file)
      failing == { i \in 1..4 : ~verdict(checks[i]).isValid }
      first == IF failing = {} THEN 4
               ELSE CHOOSE i \in failing : \A j \in failing : i <= j
  IN  [ran |-> SubSeq(checks, 1, first),
       result |-> IF failing = {} THEN Valid ELSE verdict(checks[first])]

\* C18: validateFile runs the type, size, name and magic-number checks in
\* that order and stops at the first that fails: its result is that check's
\* failure, no later check is evaluated, and it passes iff all four pass.
C18_ValidateStopsAtFirstFailure ==
  (validation.pc = "done" /\ ~validation.fault)
    => LET expected == ChecksUpToFirstFailure(validation.file)
       IN  /\ validation.ran = expected.ran
           /\ validation.result = expected.result

C18_Witness ==
  /\ validation.pc = "done"
  /\ validation.ran = << "type", "size", "name" >>
  /\ validation.result = Invalid("Nome do arquivo invalido.")
  /\ ~validateMagicNumbers(validation.file).isValid

\* The bytes start with the signature.
StartsWith(bytes, signature) ==
  /\ Len(bytes) >= Len(signature)
  /\ SubSeq(bytes, 1, Len(signature)) = signature

HasSignature(bytes) ==
  \/ StartsWith(bytes, << 255, 216, 255 >>)
  \/ StartsWith(bytes, << 137, 80, 78, 71 >>)
  \/ StartsWith(bytes, << 82, 73, 70, 70 >>)
  \/ StartsWith(bytes, << 71, 73, 70, 56 >>)

\* The magic-number check was evaluated on the file's bytes.
MagicChecked ==
  /\ validation.pc = "done"
  /\ ~validation.fault
  /\ Len(validation.ran) > 0
  /\ validation.ran[Len(validation.ran)] = "magic"

\* C19: the magic-number check passes iff the leading bytes are one of the
\* four signatures FF D8 FF, 89 50 4E 47, 52 49 46 46, 47 49 46 38.
C19_MagicPassesIffSignature ==
  MagicChecked
    => (validation.result.isValid <=> HasSignature(validation.file.lead))

\* The signature of a declared media type.
SignatureOf(type) ==
  CASE type \in {"image/jpeg", "image/jpg"} -> << 255, 216, 255 >>
    [] type = "image/png" -> << 137, 80, 78, 71 >>
    [] type = "image/webp" -> << 82, 73, 70, 70 >>
    [] type = "image/gif" -> << 71, 73, 70, 56 >>

\* C20: a file with an allowed declared type and extension whose leading
\* bytes are not the signature of the declared type is rejected.
C20_ForeignBytesRejected ==
  (/\ validation.pc = "done"
   /\ validateFileType(validation.file).isValid
   /\ ~StartsWith(validation.file.lead, SignatureOf(validation.file.type)))
    => ~validation.result.isValid

\* ------------------------------------------------------ claims: the sweep

\* The age of a record at the instant t.
Age(rec, t) == t - rec.timestamp

\* The sweep ran to its end on a store with its index.
SweepCompleted == sweep.ran /\ ~sweep.fault

\* C11: after a completed sweep no record older than 24 hours remains, every
\* other record is still there unchanged, and the result is the number of
\* records deleted.
C11_SweepDeletesExactlyTheOld ==
  SweepCompleted
    => /\ \A k \in DOMAIN sweep.after :
            ~(Age(sweep.after[k], sweep.at) > DAY_MS)
       /\ \A k \in DOMAIN sweep.before :
            ~(Age(sweep.before[k], sweep.at) > DAY_MS)
              => k \in DOMAIN sweep.after /\ sweep.after[k] = sweep.before[k]
       /\ (sweep.bulkBefore > 0 /\ ~(sweep.at - BulkTimestamp > DAY_MS))
            => sweep.bulkAfter = sweep.bulkBefore
       /\ sweep.result =
            (Cardinality(DOMAIN sweep.before) + sweep.bulkBefore)
              - (Cardinality(DOMAIN sweep.after) + sweep.bulkAfter)

\* No record of the store the second call found came of age between the two
\* calls.
NoneCameOfAge ==
  /\ \A k \in DOMAIN sweep.before :
       ~(/\ sweep.before[k].timestamp >= sweep.prev.at - DAY_MS
         /\ sweep.before[k].timestamp <= sweep.at - DAY_MS)
  /\ sweep.bulkBefore > 0
       => ~(/\ BulkTimestamp >= sweep.prev.at - DAY_MS
            /\ BulkTimestamp <= sweep.at - DAY_MS)

\* Two completed sweeps in a row, the second on the store as the first left
\* it.
SecondOfTwoSweeps ==
  /\ SweepCompleted
  /\ sweep.prev # Null
  /\ ~sweep.prev.fault
  /\ sweep.before = sweep.prev.after
  /\ sweep.bulkBefore = sweep.prev.bulkAfter

C13_SweepDeletesOnlyTheOld ==
  sweep.ran
    => /\ \A k \in DOMAIN sweep.before \ DOMAIN sweep.after :
            Age(sweep.before[k], sweep.at) > DAY_MS
       /\ sweep.bulkAfter < sweep.bulkBefore
            => sweep.at - BulkTimestamp > DAY_MS

\* ---------------------------------------------------- claims: the gateway

\* The status of the response of the fetch event (0: none).
GwStatus == IF gw.response = Null THEN 0 ELSE gw.response.status

\* The fetch event's request was under the prefix: the listener took it.
GwIntercepted == gw.pc # "idle" /\ UrlPathname(gw.req.tail).underPrefix

\* Percent-decoding of a path, the inverse of PathEncode.
RECURSIVE PercentDecode(_)
PercentDecode(chars) ==
  IF chars = << >> THEN << >>
  ELSE IF Head(chars) = "%" /\ Len(chars) >= 3
  THEN LET code == SubSeq(chars, 1, 3)
           c == CASE code = << "%", "3", "C" >> -> "<"
                  [] code = << "%", "3", "E" >> -> ">"
                  [] code = << "%", "2", "2" >> -> "\""
                  [] code = << "%", "0", "1" >> -> "^A"
                  [] OTHER -> "%"
       IN  IF c = "%" THEN << "%" >> \o PercentDecode(Tail(chars))
           ELSE << c >> \o PercentDecode(SubSeq(chars, 4, Len(chars)))
  ELSE << Head(chars) >> \o PercentDecode(Tail(chars))

\* The filename component of the request's path, decoded.
GwRequestedName ==
  LET rest == UrlPathname(gw.req.tail).rest
  IN  Padded(PercentDecode(rest.body), rest.pad)

\* C4: a 200 answer for a record that carries a checksum serves a payload
\* whose digest is that checksum.
C4_ServedPayloadMatchesChecksum ==
  (gw.pc = "done" /\ GwStatus = 200 /\ gw.rec # Null
     /\ gw.rec.checksum # NoChecksum)
    => Digest(gw.response.body) = gw.rec.checksum

\* C5: a request under the prefix whose filename contains '..' or a
\* forbidden character, or whose origin is foreign, is answered 400, and
\* neither the cache nor the store is read for it.
C5_UnsafeRequestIsBadRequest ==
  (gw.pc = "done" /\ GwIntercepted /\ ~gw.fault
     /\ \/ IncludesDotDot(GwRequestedName)
        \/ HasDangerous(GwRequestedName)
        \/ gw.req.origin # SelfOrigin)
    => GwStatus = 400 /\ ~gw.cacheRead /\ ~gw.storeRead

\* C6: a same-origin request to prefix + filename, for a filename that
\* validateFileName rejects, is answered 400.
C6_GatewayAgreesWithCheckName ==
  (gw.pc = "done" /\ GwIntercepted /\ ~gw.fault /\ gw.req.origin = SelfOrigin
     /\ ~validateFileName(gw.req.tail))
    => GwStatus = 400

\* C7: respondWith is called exactly once for every fetch event under the
\* prefix, and the response settles as a 200, 400, 404 or 500 response.
C7_AnsweredExactlyOnce ==
  /\ [](/\ gw.responded <= 1
        /\ GwIntercepted => gw.responded = 1
        /\ gw.response # Null => GwStatus \in {200, 400, 404, 500})
  /\ (GwIntercepted ~> (gw.pc = "done" /\ gw.response # Null))

C7_Witness ==
  /\ gw.pc = "done"
  /\ gw.fault
  /\ gw.responded = 1
  /\ GwStatus \in {404, 500}

\* C8: a fault while serving an intercepted request results in the 500
\* response with the fixed text.
C8_FaultIsInternalError ==
  (gw.pc = "done" /\ gw.fault) => gw.response = InternalErrorResponse

\* C9: a same-origin request whose filename passes the path checks, with no
\* live record under it, is answered 404.
C9_UnknownNameIsNotFound ==
  (gw.pc = "done" /\ GwIntercepted /\ validateRequest(gw.req.origin, gw.filename)
     /\ ~gw.hadRecord /\ ~gw.fault)
    => GwStatus = 404

\* C10: a 200 response carries the payload's declared media type, one of the
\* allowed types, as Content-Type, its size as Content-Length, and the three
\* fixed headers.
C10_SuccessHeaders ==
  (gw.pc = "done" /\ GwStatus = 200)
    => LET blob == gw.response.body
           h == gw.response.headers
       IN  /\ gw.storeRead => blob = gw.rec.blob
           /\ h.ContentType = (IF blob.type = "" THEN "image/webp" ELSE blob.type)
           /\ h.ContentType \in ALLOWED_BLOB_TYPES
           /\ h.ContentLength = Decimal(blob.size)
           /\ h.CacheControl = "public, max-age=31536000"
           /\ h.XContentTypeOptions = "nosniff"
           /\ h.XFrameOptions = "DENY"

C10_Witness ==
  /\ gw.pc = "done"
  /\ GwStatus = 200
  /\ gw.storeRead

\* ------------------------------------------------------ claims: file names

\* C21: sanitizeFileName is idempotent: called on its own result, it returns
\* that result unchanged, whatever the first argument was.
C21_SanitizeIsIdempotent ==
  (naming.op = "sanitize" /\ naming.calls = 2)
    => naming.output = naming.earlier

\* A second call whose first argument was longer than 255 characters and
\* had two dots brought together by the removal of a forbidden character.
C21_Witness ==
  /\ naming.op = "sanitize"
  /\ naming.calls = 2
  /\ NameLen(naming.origin) > MAX_FILENAME_LENGTH
  /\ ~IncludesDotDot(naming.origin)
  /\ IncludesDotDot(StripDangerous(naming.origin))
  /\ naming.output = naming.earlier

\* C22: what sanitizeFileName returns holds no forbidden character and no
\* control byte, no two consecutive dots and no leading dot, and is at most
\* 255 characters long.
C22_SanitizedNameIsClean ==
  (naming.op = "sanitize" /\ naming.pc = "done")
    => /\ \A i \in 1..Len(naming.output.body) :
            naming.output.body[i] \notin DangerousChars
       /\ \A i \in 1..(Len(naming.output.body) - 1) :
            ~(naming.output.body[i] = "." /\ naming.output.body[i + 1] = ".")
       /\ (naming.output.body = << >> \/ naming.output.body[1] # ".")
       /\ NameLen(naming.output) <= MAX_FILENAME_LENGTH

\* A first call on a name that is too long, starts with a dot and holds a
\* control byte between two dots.
C22_Witness ==
  /\ naming.op = "sanitize"
  /\ naming.calls = 1
  /\ NameLen(naming.input) > MAX_FILENAME_LENGTH
  /\ naming.input.body = << ".", "^A", "." >>
  /\ NameLen(naming.output) = MAX_FILENAME_LENGTH

\* What the claim says makes a name fail.
NameMustFail(fileName) ==
  \/ NameLen(fileName) > MAX_FILENAME_LENGTH
  \/ \E i \in 1..Len(fileName.body) : fileName.body[i] \in DangerousChars
  \/ \E i \in 1..(Len(fileName.body) - 1) :
       fileName.body[i] = "." /\ fileName.body[i + 1] = "."
  \/ (fileName.body # << >> /\ fileName.body[1] = ".")

\* C23: validateFileName fails exactly for a name longer than 255
\* characters, or holding a forbidden character or a control byte, or
\* holding "..", or starting with a dot; a repeated call on the same name
\* gives the same result.
C23_NameFailsIffForbidden ==
  (naming.op = "validate" /\ naming.pc = "done")
    => /\ ~naming.output.isValid <=> NameMustFail(naming.input)
       /\ naming.calls = 2 => naming.output = naming.earlier

\* A repeated call on a name whose only fault is its leading dot.
C23_Witness ==
  /\ naming.op = "validate"
  /\ naming.calls = 2
  /\ naming.input = Name(<< ".", "a" >>)
  /\ ~naming.output.isValid

\* --------------------------------------------------- claims: the optimizer

\* The message posted for a conversion that succeeded.
Returned == worker.posted[1].blob
HasReturned ==
  /\ worker.pc = "done"
  /\ Len(worker.posted) = 1
  /\ worker.posted[1].status = "success"

\* C24: when the encoding of the image at quality 0.98 is smaller than
\* 50 KiB, the optimizer returns exactly that encoding and encodes nothing
\* else.
C24_SmallSourceReturnedAtOnce ==
  (worker.testBlob # NoBlob /\ worker.testBlob.size < 50 * 1024)
    => /\ worker.testBlob = getWebpBlob(worker.canvas, Quality(98))
       /\ HasReturned
       /\ Returned = worker.testBlob
       /\ worker.lowQualityTest = NoBlob
       /\ worker.blob = NoBlob
       /\ worker.bisections = 0

\* A small image returned, whose encodings at lower qualities are larger
\* than the window.
C24_Witness ==
  /\ HasReturned
  /\ Returned.quality = Quality(98)
  /\ Returned.size = 50 * 1024 - 1
  /\ worker.canvas[2] > 100 * 1024
  /\ worker.canvas[3] > 100 * 1024

\* C25: when the encoding at quality 0.5 is larger than 100 KiB, every blob
\* encoded after the two probes has a quality in [0.1, 0.5], and so has the
\* blob returned.
C25_LargeSourceSearchedBelowHalfOnly ==
  (worker.lowQualityTest # NoBlob /\ worker.lowQualityTest.size > 100 * 1024)
    => /\ worker.blob # NoBlob
            => /\ worker.blob.quality >= Quality(10)
               /\ worker.blob.quality <= Quality(50)
       /\ HasReturned
            => /\ Returned.quality >= Quality(10)
               /\ Returned.quality <= Quality(50)

\* C26: the search below 0.5 returns the first blob of at most 100 KiB at
\* once: when such a blob has been encoded there, it is the one returned.
C26_LowSearchReturnsFirstAdmissible ==
  (worker.search = "low" /\ worker.blob # NoBlob
     /\ worker.blob.size <= 100 * 1024)
    => /\ HasReturned
       /\ Returned = worker.blob
       /\ Returned.size <= 100 * 1024
       /\ worker.bisections <= ITERATIONS

\* The second blob of the search below 0.5 returned, the first one having
\* been too large.
C26_Witness ==
  /\ HasReturned
  /\ worker.search = "low"
  /\ worker.bisections = 2
  /\ Returned.quality < Quality(25)
  /\ Returned.size = 95000

\* C27: in the search above 0.5, the blob returned is, of the in-window
\* blobs the search has looked at, one closest to the middle of the window.
C27_ReturnsNearestInWindow ==
  (HasReturned /\ worker.search = "high" /\ worker.nearest # -1)
    => DistanceToTarget(Returned) = worker.nearest

\* C28: in the search above 0.5, once a blob in the window has been looked
\* at, the best blob is in the window, and so is the blob returned.
C28_InWindowBestStaysInWindow ==
  (worker.search = "high" /\ worker.nearest # -1)
    => /\ worker.bestBlob.size >= 50 * 1024
       /\ worker.bestBlob.size <= 100 * 1024
       /\ HasReturned => Returned = worker.bestBlob

\* The best blob is in the window and the blob encoded last, smaller than
\* the window, has not replaced it.
C28_Witness ==
  /\ worker.search = "high"
  /\ worker.i >= 1
  /\ worker.blob.size < 50 * 1024
  /\ worker.bestBlob.size >= 50 * 1024
  /\ worker.bestBlob.size <= 100 * 1024
  /\ worker.bestBlob # worker.blob

\* C29: after the two probes the optimizer encodes at most 15 blobs.
C29_AtMostFifteenBisections == worker.bisections <= 15

\* C30: a conversion message gets exactly one reply, 'success' or 'error',
\* and 'error' when something threw; nothing is posted before, and after a
\* throw nothing more is encoded.
C30_ExactlyOneReply ==
  /\ [](worker.type \in { "CONVERT", "OPTIMIZE_CROPPED" }
          => /\ worker.pc = "done"
                  => /\ Len(worker.posted) = 1
                     /\ worker.posted[1].status \in { "success", "error" }
                     /\ worker.threw <=> worker.posted[1].status = "error"
             /\ worker.pc # "done"
                  => (worker.posted = << >> /\ ~worker.threw))
  /\ (worker.pc \notin { "idle", "done" }) ~> (worker.pc = "done")

\* The encoder rejected in the middle of the search above 0.5, and the one
\* message posted is the error.
C30_Witness ==
  /\ worker.pc = "done"
  /\ worker.threw
  /\ worker.search = "high"
  /\ worker.bisections >= 1
  /\ worker.posted = << [status |-> "error", message |-> "encoding failed"] >>

\* ------------------------------------------------ claims: the put, again

\* The filename grammar of the virtual path: 1 to 255 characters, no
\* forbidden character or control byte, no "..", no dot at the start.
MatchesGrammar(k) ==
  /\ NameLen(k) >= 1
  /\ NameLen(k) <= 255
  /\ \A i \in 1..Len(k.body) : k.body[i] \notin DangerousChars
  /\ \A i \in 1..(Len(k.body) - 1) :
       ~(k.body[i] = "." /\ k.body[i + 1] = ".")
  /\ (k.body = << >> \/ k.body[1] # ".")

\* C33: the key under which a put writes its record, once the blob and the
\* filename have passed the checks of the put, matches the filename grammar.
C33_PutKeyMatchesGrammar ==
  (put.pc \in { "open", "count", "hash" }) => MatchesGrammar(put.name)

\* C37: a put that ends in failure has left the stored records as they
\* were and reports an error: a step of a put that changes the store ends
\* the put with its key as the result, and every finished put has either
\* that result or an error.
C37_FailedPutLeavesStore ==
  /\ [][ (put' # put /\ (store' # store \/ bulk' # bulk))
           => put'.result = SaveOk(put.name) ]_vars
  /\ [](put.pc = "done" => put.result.status \in { "ok", "error" })
  /\ [][ (put.pc = "done" /\ put' # put) => put' = IdlePut ]_vars

\* A put turned away by the limit of the store.
C37_Witness ==
  /\ put.pc = "done"
  /\ put.blob # Null
  /\ put.seen = MAX_STORED_IMAGES
  /\ put.result = SaveError("Storage limit reached")

\* C38: a put whose blob and filename passed the checks and which counted
\* fewer than MAX_STORED_IMAGES records ends with its record written.
C38_PutBelowCapacityWrites ==
  (put.pc = "done" /\ put.blob # Null /\ put.seen < MAX_STORED_IMAGES
     /\ ~put.fault)
    => /\ put.result = SaveOk(put.name)
       /\ put.name \in DOMAIN store
       /\ store[put.name].blob = put.blob

\* ------------------------------------------- claims: the optimizer, again

\* C39: when the blob encoded at quality 0.5 is at most 100 KiB, the blob
\* returned is at most 100 KiB.
C39_AdmissibleLowProbeBoundsResult ==
  (HasReturned /\ worker.lowQualityTest # NoBlob
     /\ worker.lowQualityTest.size <= 100 * 1024)
    => Returned.size <= 100 * 1024

\* --------------------------------------------- claims: the gateway, again

\* C32: when the gateway answers 200 for a filename, a record is live under
\* that filename and the payload served is the payload of that record.
C32_ServedPayloadIsLive ==
  [][ (gw'.response # gw.response /\ gw'.response # Null
         /\ gw'.response.status = 200)
        => /\ gw'.filename \in DOMAIN store
           /\ gw'.response.body = store[gw'.filename].blob ]_vars

\* C34: a same-origin request for generateImageURL(k), k a key of a put and
\* of a stored record, reaches the gateway with the filename k and is
\* answered 200 with the payload stored under k.
C34_VirtualPathMapsBack ==
  (gw.pc = "done" /\ gw.req.tail \in DOMAIN store /\ ~gw.fault)
    => /\ UrlPathname(gw.req.tail).underPrefix
       /\ gw.filename = gw.req.tail
       /\ gw.response = OkResponse(store[gw.req.tail].blob)

\* ------------------------------------------------------- claims: the page

\* validateFile(file) resolves with a pass when the bytes can be read.
validateFilePasses(file) ==
  LET v == ValidateFrom([IdleValidation EXCEPT !.file = file], 1)
  IN  IF v.pc = "done" THEN v.result.isValid
      ELSE validateMagicNumbers(file).isValid

\* C31: a CONVERT message is posted to the worker only for a file that
\* passes validateFile (type, size, name, magic bytes), by whichever path the
\* file came in.
C31_ConvertOnlyForValidated ==
  \A i \in 1..Len(pool.instances) :
    \A k \in 1..Len(pool.instances[i].inbox) :
      pool.instances[i].inbox[k].type = "CONVERT"
        => validateFilePasses(pool.instances[i].inbox[k].file)

\* C35: no instance has more than one request of BatchMode to reply to, and
\* no handler of BatchMode is settled by the reply to a message that another
\* caller posted.
C35_OneRequestOutstanding ==
  /\ \A i \in 1..Len(pool.instances) : Len(pool.instances[i].inbox) <= 1
  /\ ~batch.crossed

\* The instances that are not terminated.
Running ==
  { i \in 1..Len(pool.instances) : ~pool.instances[i].terminated }

\* C36: at most one instance is not terminated, workerRef refers to no
\* terminated instance, and the timeout that follows an error event
\* terminates the instance workerRef refers to and has workerRef refer to
\* an instance created then; all this with several error events, an unmount
\* or a new run of the effect before the timeout.
C36_OneLiveInstance ==
  /\ [](Cardinality(Running) <= 1)
  /\ [](pool.workerRef # 0 => pool.workerRef \in Running)
  /\ [][(pool.timers' < pool.timers /\ pool.workerRef # 0)
          => /\ pool.instances'[pool.workerRef].terminated
             /\ Len(pool.instances') = Len(pool.instances) + 1
             /\ pool.workerRef' = Len(pool.instances')
             /\ pool.instances'[pool.workerRef'] = NewWorker]_vars

\* Two error events fired on the first instance before the first timeout;
\* both timeouts have run.
C36_Witness ==
  /\ pool.mounted
  /\ pool.timers = 0
  /\ Len(pool.instances) = 3
  /\ pool.workerRef = 3
  /\ pool.instances[1].terminated
  /\ pool.instances[2].terminated

\* C40: a run of processImages finishes: isProcessing returns to false.
C40_BatchRunFinishes == batch.isProcessing ~> ~batch.isProcessing

====
